---- MODULE Spec2Model ----
(***************************************************************************)
(* Multimodal graph generation (Server/graphs_generator).                  *)
(*                                                                         *)
(* Units.  Coordinates are points of a grid of 0.002 degrees; a            *)
(* distance is a whole number of metres (the code's distance_km times      *)
(* 1000); a time is a whole number of milliseconds (the code's seconds     *)
(* times 1000), so that 0.1 s, 0.5 km and distance / 5.0 * 3600 are exact. *)
(***************************************************************************)
EXTENDS Integers, Sequences, FiniteSets, TLC

(***************************************************************************)
(* Bounds of the model.                                                    *)
(***************************************************************************)
MaxX == 4        \* grid columns 0..MaxX (longitude)
MaxY == 2        \* grid rows 0..MaxY (latitude)
MaxOsm == 2      \* OSM node ids 1..MaxOsm of the place

Coords == (0..MaxX) \X (0..MaxY)

Abs(n) == IF n < 0 THEN -n ELSE n

Get(d, k, default) == IF k \in DOMAIN d THEN d[k] ELSE default

\* dict.update: the attributes of b override those of a
Update(a, b) ==
  [k \in (DOMAIN a) \cup (DOMAIN b) |-> IF k \in DOMAIN b THEN b[k] ELSE a[k]]

(***************************************************************************)
(* calculate_distance: the Haversine distance of two (lon, lat) points.    *)
(* At the scale of the grid the great circle distance is the plane         *)
(* distance with a degree of longitude shortened by cos(latitude):         *)
(* LatStepM metres per grid row, LonStepM metres per grid column           *)
(* (0.002 degrees at latitude 45.5 with r = 6371).                         *)
(***************************************************************************)
LatStepM == 222
LonStepM == 156

HaversineTable ==
  [dx \in 0..MaxX, dy \in 0..MaxY |->
     LET ex == dx * LonStepM
         ny == dy * LatStepM
         lo == IF ex > ny THEN ex ELSE ny
     IN  CHOOSE r \in lo..(ex + ny) :
           r * r <= ex * ex + ny * ny /\ (r + 1) * (r + 1) > ex * ex + ny * ny]

calculate_distance(coord1, coord2) ==
  HaversineTable[Abs(coord2[1] - coord1[1]), Abs(coord2[2] - coord1[2])]

\* the distance of the KDTree: Euclidean on the raw (x, y) degrees, squared
KDDist2(coord1, coord2) ==
  (coord2[1] - coord1[1]) * (coord2[1] - coord1[1])
  + (coord2[2] - coord1[2]) * (coord2[2] - coord1[2])

(***************************************************************************)
(* TRANSFER_CONFIG and WALKING_SPEED_KMH                                   *)
(***************************************************************************)
max_distance_km == 500      \* 0.5 km, in metres
walking_speed_kmh == 5
WALKING_SPEED_KMH == 5

\* the walking time taken in minutes instead of seconds
TransferTimeMinutes(actual_distance, speed) == (actual_distance * 60) \div speed
\* (actual_distance / walking_speed_kmh) * 3600, metres to milliseconds
TransferTime(actual_distance, speed) == (actual_distance * 3600) \div speed

(***************************************************************************)
(* networkx.MultiDiGraph: nodes in insertion order, each with an attribute *)
(* map; edges identified by (u, v, key), each with an attribute map.       *)
(***************************************************************************)
EmptyGraph == [nodes |-> <<>>, edges |-> {}]

NodeIds(G) == {G.nodes[i].id : i \in DOMAIN G.nodes}

NodeIndex(G, n) == CHOOSE i \in DOMAIN G.nodes : G.nodes[i].id = n

NodeData(G, n) == G.nodes[NodeIndex(G, n)].data

\* G.add_node(n, **data): a new node is appended, an existing one updated
add_node(G, n, data) ==
  IF n \in NodeIds(G)
    THEN [G EXCEPT !.nodes[NodeIndex(G, n)].data = Update(@, data)]
    ELSE [G EXCEPT !.nodes = Append(@, [id |-> n, data |-> data])]

EmptyData == [k \in {} |-> 0]

WithEndpoints(G, u, v) == add_node(add_node(G, u, EmptyData), v, EmptyData)

\* MultiDiGraph.new_edge_key: len(keydict), raised while it is in use
new_edge_key(G, u, v) ==
  LET keys  == {e.key : e \in {f \in G.edges : f.u = u /\ f.v = v}}
      start == Cardinality(keys)
  IN  CHOOSE k \in start..(start + Cardinality(keys)) :
        /\ k \notin keys
        /\ \A j \in start..(k - 1) : j \in keys

\* MultiDiGraph.add_edge(u, v, key, **data): an existing (u, v, key) is updated
add_edge_key(G, u, v, key, data) ==
  LET H   == WithEndpoints(G, u, v)
      old == {e \in H.edges : e.u = u /\ e.v = v /\ e.key = key}
      new == IF old = {} THEN data ELSE Update((CHOOSE e \in old : TRUE).data, data)
  IN  [H EXCEPT !.edges = (@ \ old) \cup {[u |-> u, v |-> v, key |-> key, data |-> new]}]

\* MultiDiGraph.add_edge(u, v, **data)
add_edge(G, u, v, data) == add_edge_key(G, u, v, new_edge_key(G, u, v), data)

\* the edges in a fixed order, to fold over them
RECURSIVE EdgeSeq(_)
EdgeSeq(es) ==
  IF es = {} THEN <<>>
  ELSE LET e == CHOOSE x \in es : TRUE IN <<e>> \o EdgeSeq(es \ {e})

RECURSIVE AddNodesFrom(_, _, _)
AddNodesFrom(R, nodes, i) ==
  IF i > Len(nodes) THEN R
  ELSE AddNodesFrom(add_node(R, nodes[i].id, nodes[i].data), nodes, i + 1)

RECURSIVE AddEdgesFrom(_, _, _)
AddEdgesFrom(R, edges, i) ==
  IF i > Len(edges) THEN R
  ELSE AddEdgesFrom(add_edge_key(R, edges[i].u, edges[i].v, edges[i].key, edges[i].data),
                    edges, i + 1)

\* nx.compose_all: the union, the attributes of later graphs taking precedence
RECURSIVE ComposeFrom(_, _, _)
ComposeFrom(R, graphs, i) ==
  IF i > Len(graphs) THEN R
  ELSE ComposeFrom(AddEdgesFrom(AddNodesFrom(R, graphs[i].nodes, 1),
                                EdgeSeq(graphs[i].edges), 1),
                   graphs, i + 1)

compose_all(graphs) == ComposeFrom(EmptyGraph, graphs, 1)

(***************************************************************************)
(* scipy KDTree.query(q, k): the indices of the k points nearest to q in   *)
(* ascending order of Euclidean distance, equal distances in the order of  *)
(* the point list; when k exceeds the number of points the missing places  *)
(* hold the index one past the last point (with an infinite distance).     *)
(***************************************************************************)
KDRank(coords, q, i) ==
  Cardinality({j \in DOMAIN coords :
                 \/ KDDist2(q, coords[j]) < KDDist2(q, coords[i])
                 \/ KDDist2(q, coords[j]) = KDDist2(q, coords[i]) /\ j < i})

KDQuery(coords, q, k) ==
  [r \in 1..k |->
     IF r <= Len(coords)
       THEN CHOOSE i \in DOMAIN coords : KDRank(coords, q, i) = r - 1
       ELSE Len(coords) + 1]

Min(S) == CHOOSE m \in S : \A n \in S : m <= n

(***************************************************************************)
(* graph_merger.add_transfer_edges                                         *)
(***************************************************************************)
NodeMode(data) == Get(data, "travel_mode", Get(data, "mode", "unknown"))

\* coord[0] is not None and coord[1] is not None
HasCoord(data) == "x" \in DOMAIN data /\ "y" \in DOMAIN data

CoordOf(data) == <<data.x, data.y>>

nodes_by_mode(G, m) == SelectSeq(G.nodes, LAMBDA nd : NodeMode(nd.data) = m)

valid_transfers ==
  << <<"car", "transit">>, <<"car", "bixi">>, <<"car", "bike">>,
     <<"bike", "transit">>, <<"bixi", "transit">>, <<"transit", "car">>,
     <<"transit", "bike">>, <<"transit", "bixi">>, <<"bike", "car">>,
     <<"bixi", "car">> >>

TransferK == 3

WithinTransferDistance(actual_distance) == actual_distance <= max_distance_km

TransferEdgeData(mode1, mode2, actual_distance) ==
  [travel_mode   |-> "transfer",
   travel_time   |-> TransferTime(actual_distance, walking_speed_kmh),
   distance_km   |-> actual_distance,
   transfer_from |-> mode1,
   transfer_to   |-> mode2]

\* lines 101-128: the first of the nearest mode2 nodes that is in range
ConnectNode(G, node1, coord1, mode2_nodes, mode2_coords, mode1, mode2) ==
  LET k   == IF TransferK < Len(mode2_coords) THEN TransferK ELSE Len(mode2_coords)
      idx == KDQuery(mode2_coords, coord1, k)
      ok  == {r \in 1..k :
                WithinTransferDistance(calculate_distance(coord1, mode2_coords[idx[r]]))}
  IN  IF ok = {} THEN G
      ELSE LET i == idx[Min(ok)]
           IN  add_edge(G, node1, mode2_nodes[i],
                        TransferEdgeData(mode1, mode2,
                                         calculate_distance(coord1, mode2_coords[i])))

RECURSIVE ConnectNodes(_, _, _, _, _, _, _)
ConnectNodes(G, sources, i, mode2_nodes, mode2_coords, mode1, mode2) ==
  IF i > Len(sources) THEN G
  ELSE ConnectNodes(
         IF HasCoord(sources[i].data)
           THEN ConnectNode(G, sources[i].id, CoordOf(sources[i].data),
                            mode2_nodes, mode2_coords, mode1, mode2)
           ELSE G,
         sources, i + 1, mode2_nodes, mode2_coords, mode1, mode2)

\* the pair check without the test of the mode list (lines 82-83 left out)
PairAppliesAnyMode(G, modes, mode1, mode2) ==
  /\ nodes_by_mode(G, mode1) # <<>>
  /\ nodes_by_mode(G, mode2) # <<>>
\* lines 79-83: both modes have nodes and both are in the mode list
PairApplies(G, modes, mode1, mode2) ==
  /\ nodes_by_mode(G, mode1) # <<>>
  /\ nodes_by_mode(G, mode2) # <<>>
  /\ \E i \in DOMAIN modes : modes[i] = mode1
  /\ \E i \in DOMAIN modes : modes[i] = mode2

\* one iteration of the loop over valid_transfers (lines 78-128)
TransferPair(G, modes, mode1, mode2) ==
  IF ~PairApplies(G, modes, mode1, mode2) THEN G
  ELSE LET targets      == SelectSeq(nodes_by_mode(G, mode2),
                                     LAMBDA nd : HasCoord(nd.data))
           mode2_coords == [i \in DOMAIN targets |-> CoordOf(targets[i].data)]
           mode2_nodes  == [i \in DOMAIN targets |-> targets[i].id]
       IN  IF mode2_coords = <<>> THEN G
           ELSE ConnectNodes(G, nodes_by_mode(G, mode1), 1,
                             mode2_nodes, mode2_coords, mode1, mode2)

RECURSIVE TransferPairs(_, _, _)
TransferPairs(G, modes, i) ==
  IF i > Len(valid_transfers) THEN G
  ELSE TransferPairs(TransferPair(G, modes, valid_transfers[i][1], valid_transfers[i][2]),
                     modes, i + 1)

add_transfer_edges(merged_graph, modes) ==
  IF Len(modes) < 2 THEN merged_graph ELSE TransferPairs(merged_graph, modes, 1)

(***************************************************************************)
(* bike_to_bixi.inject_bixi_into_bike_graph.  The result is the returned   *)
(* graph, or raised when the function ends in an exception: a bike node    *)
(* without x or y (KeyError), an empty bike graph (KDTree of no points),   *)
(* or a station none of whose neighbours is in range while the bike graph  *)
(* has fewer than InjectK nodes (bike_ids[idx] of the index one past the   *)
(* end, IndexError).                                                       *)
(***************************************************************************)
InjectK == 5

BixiNodeData(station) ==
  [x |-> station.x, y |-> station.y, travel_mode |-> "bixi", mode |-> "bixi",
   name |-> station.name, is_bixi |-> TRUE]

BixiEdgeData(actual_distance) ==
  [travel_mode |-> "bixi_transfer",
   travel_time |-> TransferTime(actual_distance, WALKING_SPEED_KMH),
   distance_km |-> actual_distance]

WithinBixiDistance(actual_distance, max_transfer_distance_km) ==
  actual_distance <= max_transfer_distance_km

\* lines 50-90: one station
InjectStation(R, station, bike_ids, bike_coords, max_transfer_distance_km) ==
  LET G1         == add_node(R.G, station.id, BixiNodeData(station))
      bixi_coord == <<station.x, station.y>>
      idx        == KDQuery(bike_coords, bixi_coord, InjectK)
      ok         == {r \in 1..InjectK :
                       /\ idx[r] <= Len(bike_coords)
                       /\ WithinBixiDistance(
                            calculate_distance(bixi_coord, bike_coords[idx[r]]),
                            max_transfer_distance_km)}
  IN  IF ~R.ok THEN R
      ELSE IF ok # {}
        THEN LET i == idx[Min(ok)]
                 d == calculate_distance(bixi_coord, bike_coords[i])
             IN  [ok |-> TRUE,
                  G  |-> add_edge(add_edge(G1, station.id, bike_ids[i], BixiEdgeData(d)),
                                  bike_ids[i], station.id, BixiEdgeData(d))]
      ELSE IF Len(bike_coords) < InjectK
        THEN [ok |-> FALSE, G |-> G1]
      ELSE [ok |-> TRUE, G |-> G1]

RECURSIVE InjectStations(_, _, _, _, _, _)
InjectStations(R, bixi_stations, i, bike_ids, bike_coords, max_transfer_distance_km) ==
  IF i > Len(bixi_stations) THEN R
  ELSE InjectStations(
         InjectStation(R, bixi_stations[i], bike_ids, bike_coords,
                       max_transfer_distance_km),
         bixi_stations, i + 1, bike_ids, bike_coords, max_transfer_distance_km)

inject_bixi_into_bike_graph(G_bike, bixi_stations, max_transfer_distance_km) ==
  LET bike_coords == [i \in DOMAIN G_bike.nodes |->
                        IF HasCoord(G_bike.nodes[i].data)
                          THEN CoordOf(G_bike.nodes[i].data) ELSE <<>>]
      bike_ids    == [i \in DOMAIN G_bike.nodes |-> G_bike.nodes[i].id]
  IN  IF \/ \E i \in DOMAIN G_bike.nodes : ~HasCoord(G_bike.nodes[i].data)
         \/ G_bike.nodes = <<>>
        THEN [ok |-> FALSE, G |-> G_bike]
        ELSE InjectStations([ok |-> TRUE, G |-> G_bike], bixi_stations, 1,
                            bike_ids, bike_coords, max_transfer_distance_km)

(***************************************************************************)
(* public_transport_graph.  A time string is the sequence of its           *)
(* ':'-separated integer fields: <<25, 10, 0>> is "25:10:00"; a string     *)
(* that does not have three fields (an empty cell, "12:30") does not       *)
(* unpack into hours, minutes, seconds and reads as 0.                     *)
(***************************************************************************)
DaySeconds == 24 * 3600

time_to_seconds(time_str) ==
  IF Len(time_str) = 3
    THEN (time_str[1] * 3600 + time_str[2] * 60 + time_str[3]) * 1000
    ELSE 0

\* lines 68-73: arrival at the next stop minus departure from this one
TripTravelTime(current_stop, next_stop) ==
  LET travel_time == next_stop.arrival_time - current_stop.departure_time
  IN  IF travel_time < 0 THEN travel_time + DaySeconds * 1000 ELSE travel_time

StopNode(stop_id) == <<"stop_", stop_id>>

\* lines 31-40
RECURSIVE AddStops(_, _, _)
AddStops(G, stops, i) ==
  IF i > Len(stops) THEN G
  ELSE AddStops(add_node(G, StopNode(stops[i].stop_id),
                         [x |-> stops[i].stop_lon, y |-> stops[i].stop_lat,
                          travel_mode |-> "transit", mode |-> "transit",
                          name |-> stops[i].stop_name, stop_id |-> stops[i].stop_id]),
                stops, i + 1)

\* lines 52-61: the rows of a trip by stop_sequence, times in seconds
RECURSIVE SortBySequence(_)
SortBySequence(rows) ==
  IF rows = {} THEN <<>>
  ELSE LET first == CHOOSE r \in rows : \A q \in rows : r.stop_sequence <= q.stop_sequence
       IN  <<first>> \o SortBySequence(rows \ {first})

TripData(stop_times, trip_id) ==
  LET group == SortBySequence({stop_times[i] : i \in {j \in DOMAIN stop_times :
                                                       stop_times[j].trip_id = trip_id}})
  IN  [i \in DOMAIN group |->
         [stop_id        |-> StopNode(group[i].stop_id),
          arrival_time   |-> time_to_seconds(group[i].arrival_time),
          departure_time |-> time_to_seconds(group[i].departure_time)]]

\* lines 64-87
RECURSIVE AddTripEdges(_, _, _, _)
AddTripEdges(G, trip_data, trip_id, i) ==
  IF i > Len(trip_data) - 1 THEN G
  ELSE AddTripEdges(
         add_edge(G, trip_data[i].stop_id, trip_data[i + 1].stop_id,
                  [travel_mode |-> "transit",
                   travel_time |-> TripTravelTime(trip_data[i], trip_data[i + 1]),
                   trip_id     |-> trip_id]),
         trip_data, trip_id, i + 1)

RECURSIVE AddTrips(_, _, _)
AddTrips(G, stop_times, trip_ids) ==
  IF trip_ids = {} THEN G
  ELSE LET trip_id == Min(trip_ids)
       IN  AddTrips(AddTripEdges(G, TripData(stop_times, trip_id), trip_id, 1),
                    stop_times, trip_ids \ {trip_id})

build_gtfs_graph(stops, stop_times) ==
  AddTrips(AddStops(EmptyGraph, stops, 1), stop_times,
           {stop_times[i].trip_id : i \in DOMAIN stop_times})

(***************************************************************************)
(* The per-mode graphs of the place.  osrm_graph.main takes the drive and  *)
(* the bike network of the same place from OSM: the nodes of both keep     *)
(* their OSM ids and coordinates.  bixi_graph names a station              *)
(* bixi_<station_id>, public_transport_graph a stop stop_<stop_id>.        *)
(***************************************************************************)
OsmIds == 1..MaxOsm

OsmNode(n) == <<"", n>>

BixiNode(station_id) == <<"bixi_", station_id>>

\* the OSM nodes lie two columns apart, row after row
OsmCoord(n) ==
  <<(2 * (n - 1)) % (MaxX + 1), ((2 * (n - 1)) \div (MaxX + 1)) % (MaxY + 1)>>

OsmNodeData(n, tag) ==
  IF tag = "" THEN [x |-> OsmCoord(n)[1], y |-> OsmCoord(n)[2]]
  ELSE [x |-> OsmCoord(n)[1], y |-> OsmCoord(n)[2], travel_mode |-> tag, mode |-> tag]

\* ox.graph_from_place: a network over the OSM nodes ids, a street from each
\* node to the next one of the network
RECURSIVE OsmStreets(_, _, _)
OsmStreets(G, ids, edge_data) ==
  IF Cardinality(ids) < 2 THEN G
  ELSE LET u == Min(ids)
           v == Min(ids \ {u})
       IN  OsmStreets(add_edge(G, OsmNode(u), OsmNode(v), edge_data), ids \ {u}, edge_data)

RECURSIVE OsmNodes(_, _, _)
OsmNodes(G, ids, tag) ==
  IF ids = {} THEN G
  ELSE OsmNodes(add_node(G, OsmNode(Min(ids)), OsmNodeData(Min(ids), tag)),
                ids \ {Min(ids)}, tag)

OsmGraph(ids, tag, edge_data) == OsmStreets(OsmNodes(EmptyGraph, ids, tag), ids, edge_data)

\* bike_to_bixi.main lines 139-140: the stations of bixi_graph.json
BixiStation(station_id, coord) ==
  [id |-> BixiNode(station_id), x |-> coord[1], y |-> coord[2], name |-> "station"]

(***************************************************************************)
(* graph_merger.main                                                       *)
(***************************************************************************)
labels == <<"car", "bike", "bixi", "gtfs">>

\* itertools.combinations(seq, r): the r-subsequences in lexicographic order
IndexTuples(n, r) == {t \in [1..r -> 1..n] : \A i \in 1..(r - 1) : t[i] < t[i + 1]}

LexLess(a, b) ==
  \E i \in DOMAIN a : a[i] < b[i] /\ \A j \in 1..(i - 1) : a[j] = b[j]

RECURSIVE SortLex(_)
SortLex(S) ==
  IF S = {} THEN <<>>
  ELSE LET m == CHOOSE a \in S : \A b \in S \ {a} : LexLess(a, b)
       IN  <<m>> \o SortLex(S \ {m})

combinations(seq, r) ==
  LET sorted == SortLex(IndexTuples(Len(seq), r))
  IN  [k \in DOMAIN sorted |-> [i \in 1..r |-> seq[sorted[k][i]]]]

\* lines 199-200: for r in range(2, len(labels) + 1): for combo in combinations
RECURSIVE CombosFrom(_)
CombosFrom(r) ==
  IF r > Len(labels) THEN <<>> ELSE combinations(labels, r) \o CombosFrom(r + 1)

Combos == CombosFrom(2)

In(x, seq) == \E i \in DOMAIN seq : seq[i] = x

\* the validity test with only the size rule
is_valid_combo_without_rule_1(combo) == Len(combo) >= 2
is_valid_combo(combo) ==
  IF In("bike", combo) /\ In("bixi", combo) THEN FALSE
  ELSE IF Len(combo) < 2 THEN FALSE
  ELSE TRUE

TransferEdgeCount(G) ==
  Cardinality({e \in G.edges : Get(e.data, "travel_mode", "") = "transfer"})

\* the file named after the first label of the combination alone
SavedFileFirstLabel(graph, name, modes) ==
  [name                |-> SubSeq(name, 1, 1),
   modes               |-> modes,
   node_count          |-> Len(graph.nodes),
   edge_count          |-> Cardinality(graph.edges),
   transfer_edge_count |-> TransferEdgeCount(graph),
   graph               |-> graph]
\* save_merged_graph: the file of the combination, with its metadata; its name
\* is the labels of the combination joined by "_"
SavedFile(graph, name, modes) ==
  [name                |-> name,
   modes               |-> modes,
   node_count          |-> Len(graph.nodes),
   edge_count          |-> Cardinality(graph.edges),
   transfer_edge_count |-> TransferEdgeCount(graph),
   graph               |-> graph]

VARIABLES
  files,                   \* graph_merger: the graph file of each label in GRAPH_DIR
  present,                 \* graph_merger: the labels whose file load_graph can read
  ci,                      \* main: the place in the enumeration of combinations
  saved,                   \* main: the save_merged_graph calls so far
  combinations_generated,  \* main: its counter
  merged_graph,            \* the graph given to add_transfer_edges
  modes,                   \* the mode list given to add_transfer_edges
  transferred,             \* what add_transfer_edges returned
  injected,                \* what inject_bixi_into_bike_graph returned
  stop_times,              \* the rows of stop_times.txt
  gtfs_graph,              \* what build_gtfs_graph built
  edge_data,               \* the attribute map of an edge given to the weight functions
  cost,                    \* what effective_edge_cost returned
  weight,                  \* what multimodal_astar_weight returned
  time_profiles,           \* TrafficDataProcessor: the traffic samples, processed
  reference_time,          \* the hour of the time the traffic is asked for
  position,                \* the (lon, lat) place asked about
  multiplier,              \* what get_traffic_multiplier returned
  car_graph,               \* the graph given to apply_traffic_to_graph
  applied,                 \* the graph after apply_traffic_to_graph
  road,                    \* the edge attributes given to _calculate_zoning_penalty
  penalty,                 \* what _calculate_zoning_penalty returned
  time_of_day,             \* get_parking_cost_info: its time_of_day
  duration_hours,          \* get_parking_cost_info: its duration_hours
  parking,                 \* what get_parking_cost_info returned
  traffic_data,            \* TrafficDataProcessor: the samples downloaded, or None
  parking_density_map,     \* TrafficDataProcessor: the parking cost map, or None
  calls,                   \* the calls on the processor so far, with what they returned
  zoning_calls,            \* what the calls of apply_zoning_travel_time_penalty left
  driver,                  \* the routing driver that runs
  route_graph,             \* the graph the driver routes on
  qi,                      \* the number of the query of the driver
  reports,                 \* what the driver printed for its queries
  times                    \* the queries the driver recorded a routing time for

varsMerge == <<files, present, ci, saved, combinations_generated>>

varsSynth == <<merged_graph, modes, transferred, injected>>

varsGtfs == <<stop_times, gtfs_graph>>

varsCost == <<edge_data, cost, weight>>

varsTraffic ==
  <<time_profiles, reference_time, position, multiplier, car_graph, applied,
    road, penalty, time_of_day, duration_hours, parking>>

varsFeed == <<traffic_data, parking_density_map, calls, zoning_calls>>

varsRoute == <<driver, route_graph, qi, reports, times>>

vars == <<varsMerge, varsSynth, varsGtfs, varsCost, varsTraffic, varsFeed, varsRoute>>

\* a variable of a component that is not running
Idle == <<>>

IdleMerge ==
  /\ files = Idle /\ present = Idle /\ ci = Idle /\ saved = Idle
  /\ combinations_generated = Idle

IdleSynth ==
  merged_graph = Idle /\ modes = Idle /\ transferred = Idle /\ injected = Idle

IdleGtfs == stop_times = Idle /\ gtfs_graph = Idle

IdleCost == edge_data = Idle /\ cost = Idle /\ weight = Idle

IdleTraffic ==
  /\ time_profiles = Idle /\ reference_time = Idle /\ position = Idle
  /\ multiplier = Idle /\ car_graph = Idle /\ applied = Idle
  /\ road = Idle /\ penalty = Idle
  /\ time_of_day = Idle /\ duration_hours = Idle /\ parking = Idle

IdleFeed ==
  /\ traffic_data = Idle /\ parking_density_map = Idle /\ calls = Idle /\ zoning_calls = Idle

IdleRoute ==
  /\ driver = Idle /\ route_graph = Idle /\ qi = Idle /\ reports = Idle /\ times = Idle

LabelSet == {labels[i] : i \in DOMAIN labels}

StreetData == [length |-> 312, travel_time |-> 22464]

PathData == [length |-> 312]

StopRows(coord) ==
  << [stop_id |-> 1, stop_lon |-> coord[1], stop_lat |-> coord[2], stop_name |-> "stop"],
     [stop_id |-> 2, stop_lon |-> MaxX, stop_lat |-> MaxY, stop_name |-> "stop"] >>

StopTimeRows ==
  << [trip_id |-> 1, stop_id |-> 1, stop_sequence |-> 1,
      arrival_time |-> <<8, 0, 0>>, departure_time |-> <<8, 0, 0>>],
     [trip_id |-> 1, stop_id |-> 2, stop_sequence |-> 2,
      arrival_time |-> <<8, 5, 0>>, departure_time |-> <<8, 5, 0>>] >>

\* the files the builders leave in GRAPH_DIR
GraphFiles(carIds, bikeIds, carTag, bikeTag, stopCoord, stationCoord) ==
  LET bike == OsmGraph(bikeIds, bikeTag, PathData)
  IN  [l \in LabelSet |->
         CASE l = "car"  -> OsmGraph(carIds, carTag, StreetData)
           [] l = "bike" -> bike
           [] l = "bixi" -> inject_bixi_into_bike_graph(
                              bike, <<BixiStation(1, stationCoord)>>, max_distance_km).G
           [] l = "gtfs" -> build_gtfs_graph(StopRows(stopCoord), StopTimeRows)]

\* bike_to_bixi.main writes bike_with_bixi_graph.json when the injection returns
BixiFileWritten(bikeIds, bikeTag, stationCoord) ==
  inject_bixi_into_bike_graph(OsmGraph(bikeIds, bikeTag, PathData),
                              <<BixiStation(1, stationCoord)>>, max_distance_km).ok

InitMerge ==
  /\ \E carIds \in SUBSET OsmIds, bikeIds \in SUBSET OsmIds, tagged \in BOOLEAN,
        sx \in 0..MaxX, bx \in 0..MaxX,
        missing \in {{}} \cup {{l} : l \in LabelSet} :
       /\ files = GraphFiles(carIds, bikeIds,
                             IF tagged THEN "car" ELSE "", IF tagged THEN "bike" ELSE "",
                             <<sx, 0>>, <<bx, 0>>)
       /\ present = (LabelSet \ missing)
                      \ (IF BixiFileWritten(bikeIds, IF tagged THEN "bike" ELSE "", <<bx, 0>>)
                           THEN {} ELSE {"bixi"})
  /\ ci = 1
  /\ saved = <<>>
  /\ combinations_generated = 0
  /\ IdleSynth /\ IdleGtfs /\ IdleCost /\ IdleTraffic
  /\ IdleFeed /\ IdleRoute

Combo == Combos[ci]

\* lines 201-203
SkipInvalid ==
  /\ ci <= Len(Combos)
  /\ ~is_valid_combo(Combo)
  /\ ci' = ci + 1
  /\ UNCHANGED <<files, present, saved, combinations_generated, varsSynth, varsGtfs, varsCost, varsTraffic,
                 varsFeed, varsRoute>>

\* lines 211-217: a file of the combination does not load
LoadError ==
  /\ ci <= Len(Combos)
  /\ is_valid_combo(Combo)
  /\ \E i \in DOMAIN Combo : Combo[i] \notin present
  /\ ci' = ci + 1
  /\ UNCHANGED <<files, present, saved, combinations_generated, varsSynth, varsGtfs, varsCost, varsTraffic,
                 varsFeed, varsRoute>>

\* lines 218-229
MergeAndSave ==
  /\ ci <= Len(Combos)
  /\ is_valid_combo(Combo)
  /\ \A i \in DOMAIN Combo : Combo[i] \in present
  /\ LET graphs == [i \in DOMAIN Combo |-> files[Combo[i]]]
         merged == add_transfer_edges(compose_all(graphs), Combo)
     IN  saved' = Append(saved, SavedFile(merged, Combo, Combo))
  /\ combinations_generated' = combinations_generated + 1
  /\ ci' = ci + 1
  /\ UNCHANGED <<files, present, varsSynth, varsGtfs, varsCost, varsTraffic, varsFeed, varsRoute>>

NextMerge == SkipInvalid \/ LoadError \/ MergeAndSave

SpecMerge == InitMerge /\ [][NextMerge]_vars

(***************************************************************************)
(* The two synthesizers on the nodes of one place: add_transfer_edges on   *)
(* the merged graph of all nodes, inject_bixi_into_bike_graph on the graph *)
(* of its bike nodes with its bixi nodes as the stations.                  *)
(***************************************************************************)
NodeModes == {"car", "bike", "bixi", "transit", "unknown"}

ModeLists ==
  { <<"car", "bike">>, <<"car", "bixi", "gtfs">>, <<"car", "bike", "bixi", "transit">> }

PlaceNodeId(i, mode) ==
  CASE mode = "bixi"    -> BixiNode(i)
    [] mode = "transit" -> StopNode(i)
    [] OTHER            -> OsmNode(i)

PlaceNodeData(mode, coord) ==
  IF mode = "unknown" THEN [x |-> coord[1], y |-> coord[2]]
  ELSE [x |-> coord[1], y |-> coord[2], travel_mode |-> mode, mode |-> mode]

PlaceGraph(nodeModes, nodeCoords) ==
  [nodes |-> [i \in DOMAIN nodeModes |->
                [id |-> PlaceNodeId(i, nodeModes[i]),
                 data |-> PlaceNodeData(nodeModes[i], nodeCoords[i])]],
   edges |-> {}]

\* bike_to_bixi.main: the bike graph and the station list of the place
BikeGraphOf(G) ==
  LET bike == nodes_by_mode(G, "bike")
      ids  == {bike[i].id : i \in DOMAIN bike}
  IN  [nodes |-> bike, edges |-> {e \in G.edges : e.u \in ids /\ e.v \in ids}]

StationsOf(G) ==
  LET st == nodes_by_mode(G, "bixi")
  IN  [i \in DOMAIN st |->
         [id |-> st[i].id, x |-> st[i].data.x, y |-> st[i].data.y, name |-> "station"]]

NotYet == [done |-> FALSE]

\* the absent value of Python
None == [none |-> TRUE]

\* the graph given when the injection works on the graph itself, not a copy
GraphGivenAliased(G_bike, G) == G
\* bike_to_bixi.py line 37, G = G_bike.copy(): the stations and edges go to
\* the copy G, the graph given to the call is afterwards what it was
GraphGiven(G_bike, G) == G_bike

InitSynth ==
  /\ \E m2 \in NodeModes, m3 \in NodeModes,
        x1 \in 0..MaxX, x2 \in 0..MaxX, c3 \in Coords :
       merged_graph = PlaceGraph(<<"car", m2, m3>>, << <<x1, 0>>, <<x2, 0>>, c3 >>)
  /\ modes \in ModeLists
  /\ transferred = NotYet
  /\ injected = NotYet
  /\ IdleMerge /\ IdleGtfs /\ IdleCost /\ IdleTraffic
  /\ IdleFeed /\ IdleRoute

AddTransferEdges ==
  /\ ~transferred.done
  /\ transferred' = [done |-> TRUE, G |-> add_transfer_edges(merged_graph, modes)]
  /\ UNCHANGED <<merged_graph, modes, injected, varsMerge, varsGtfs, varsCost, varsTraffic,
                 varsFeed, varsRoute>>

InjectBixi ==
  /\ ~injected.done
  /\ LET r == inject_bixi_into_bike_graph(BikeGraphOf(merged_graph),
                                          StationsOf(merged_graph), max_distance_km)
     IN  injected' = [done |-> TRUE, ok |-> r.ok, G |-> r.G,
                      G_bike |-> GraphGiven(BikeGraphOf(merged_graph), r.G)]
  /\ UNCHANGED <<merged_graph, modes, transferred, varsMerge, varsGtfs, varsCost, varsTraffic,
                 varsFeed, varsRoute>>

NextSynth == AddTransferEdges \/ InjectBixi

SpecSynth == InitSynth /\ [][NextSynth]_vars

(***************************************************************************)
(* The two synthesizers on one source node and the bike nodes around it: a *)
(* car node for add_transfer_edges, a bixi station for                     *)
(* inject_bixi_into_bike_graph.  The bike nodes stand at two places, the   *)
(* first of them at the one and the rest at the other.                     *)
(***************************************************************************)
MaxTargets == 4     \* the most bike nodes around the source

SourceModes == {"car", "bixi"}

NearestModeLists == { <<"car", "bike">>, <<"car", "bike", "bixi">> }

Neighbourhood(source, n, j, A, B) ==
  PlaceGraph([i \in 1..(n + 1) |-> IF i = 1 THEN source ELSE "bike"],
             [i \in 1..(n + 1) |-> IF i = 1 THEN <<0, 0>>
                                   ELSE IF i <= j + 1 THEN A ELSE B])

InitNearest ==
  /\ \E source \in SourceModes, n \in 0..MaxTargets, A \in Coords, B \in Coords :
       \E j \in 0..n : merged_graph = Neighbourhood(source, n, j, A, B)
  /\ modes \in NearestModeLists
  /\ transferred = NotYet
  /\ injected = NotYet
  /\ IdleMerge /\ IdleGtfs /\ IdleCost /\ IdleTraffic
  /\ IdleFeed /\ IdleRoute

SpecNearest == InitNearest /\ [][NextSynth]_vars

(***************************************************************************)
(* The two synthesizers on nodes some of which have no coordinates: a car  *)
(* or bike node of the place may lack its x and y; a station always has    *)
(* both.                                                                   *)
(***************************************************************************)
MissingModes == {"car", "bike", "bixi"}

\* the node without its x and y
WithoutCoord(nd) ==
  [nd EXCEPT !.data = [k \in DOMAIN nd.data \ {"x", "y"} |-> nd.data[k]]]

\* the place with the coordinates of the nodes of the set lacking removed
PlaceLacking(nodeModes, nodeCoords, lacking) ==
  LET G == PlaceGraph(nodeModes, nodeCoords)
  IN  [G EXCEPT !.nodes = [i \in DOMAIN G.nodes |->
                             IF i \in lacking THEN WithoutCoord(G.nodes[i])
                             ELSE G.nodes[i]]]

InitMissing ==
  /\ \E m1 \in MissingModes, m2 \in MissingModes, m3 \in MissingModes,
        x2 \in 0..MaxX, x3 \in 0..MaxX, lacking \in SUBSET (1..3) :
       /\ \A i \in lacking : <<m1, m2, m3>>[i] # "bixi"
       /\ merged_graph = PlaceLacking(<<m1, m2, m3>>, << <<0, 0>>, <<x2, 0>>, <<x3, 0>> >>,
                                      lacking)
  /\ modes = <<"car", "bike", "bixi">>
  /\ transferred = NotYet
  /\ injected = NotYet
  /\ IdleMerge /\ IdleGtfs /\ IdleCost /\ IdleTraffic
  /\ IdleFeed /\ IdleRoute

SpecMissing == InitMissing /\ [][NextSynth]_vars

(***************************************************************************)
(* bike_to_bixi.main on a bike graph with its streets: bike nodes at two   *)
(* places, the first of them at the one and the rest at the other, a       *)
(* street each way between every two consecutive nodes, and the stations   *)
(* of the feed.                                                            *)
(***************************************************************************)
MaxBikes == 5       \* the most nodes of the bike graph

RECURSIVE WithStreets(_, _, _)
WithStreets(G, n, i) ==
  IF i >= n THEN G
  ELSE WithStreets(add_edge(add_edge(G, OsmNode(i), OsmNode(i + 1), PathData),
                            OsmNode(i + 1), OsmNode(i), PathData),
                   n, i + 1)

BikeNetwork(n, j, A, B, stationCoords) ==
  WithStreets(
    PlaceGraph([i \in 1..(n + Len(stationCoords)) |-> IF i <= n THEN "bike" ELSE "bixi"],
               [i \in 1..(n + Len(stationCoords)) |->
                  IF i <= j THEN A ELSE IF i <= n THEN B ELSE stationCoords[i - n]]),
    n, 1)

StationLists == { << <<0, 0>> >>, << <<0, 0>>, <<0, 0>> >>, << <<0, 0>>, <<MaxX, MaxY>> >> }

InitStreets ==
  /\ \E n \in 1..MaxBikes, A \in Coords, B \in {<<0, 0>>, <<MaxX, 0>>},
        stationCoords \in StationLists :
       \E j \in 0..n : merged_graph = BikeNetwork(n, j, A, B, stationCoords)
  /\ modes = <<"bike", "bixi">>
  /\ transferred = NotYet
  /\ injected = NotYet
  /\ IdleMerge /\ IdleGtfs /\ IdleCost /\ IdleTraffic
  /\ IdleFeed /\ IdleRoute

SpecStreets == InitStreets /\ [][NextSynth]_vars

(***************************************************************************)
(* build_gtfs_graph on the stop times of one trip.  The times of a feed    *)
(* do not decrease along a trip; a stop that is not a timepoint has empty  *)
(* time cells.                                                             *)
(***************************************************************************)
MaxHour == 25         \* the latest hour of a stop time (next-day service)
MaxTripStops == 3     \* the most stops of the trip

Hours == {0} \cup ((MaxHour - 2)..MaxHour)

EmptyCell == <<>>

TimeStrs == {<<h, 0, 0>> : h \in Hours} \cup {EmptyCell}

GtfsStops ==
  [i \in 1..(MaxTripStops + 1) |->
     [stop_id |-> i, stop_lon |-> i % (MaxX + 1), stop_lat |-> 0, stop_name |-> "stop"]]

TripRows(arr, dep) ==
  [i \in DOMAIN arr |->
     [trip_id |-> 1, stop_id |-> i, stop_sequence |-> i,
      arrival_time |-> arr[i], departure_time |-> dep[i]]]

\* the times present do not decrease: arrival, departure, next arrival, ...
WellFormedTrip(arr, dep) ==
  LET cell(k) == IF k % 2 = 1 THEN arr[(k + 1) \div 2] ELSE dep[k \div 2]
  IN  \A j \in 1..(2 * Len(arr)), k \in 1..(2 * Len(arr)) :
        (j < k /\ cell(j) # EmptyCell /\ cell(k) # EmptyCell)
          => time_to_seconds(cell(j)) <= time_to_seconds(cell(k))

InitGtfs ==
  /\ \E n \in 2..MaxTripStops :
       \E arr \in [1..n -> TimeStrs], dep \in [1..n -> TimeStrs] :
         /\ WellFormedTrip(arr, dep)
         /\ stop_times = TripRows(arr, dep)
  /\ gtfs_graph = NotYet
  /\ IdleMerge /\ IdleSynth /\ IdleCost /\ IdleTraffic
  /\ IdleFeed /\ IdleRoute

BuildGtfsGraph ==
  /\ ~gtfs_graph.done
  /\ gtfs_graph' = [done |-> TRUE, G |-> build_gtfs_graph(GtfsStops, stop_times)]
  /\ UNCHANGED <<stop_times, varsMerge, varsSynth, varsCost, varsTraffic, varsFeed, varsRoute>>

NextGtfs == BuildGtfsGraph

SpecGtfs == InitGtfs /\ [][NextGtfs]_vars

(***************************************************************************)
(* The weight functions of the routing tests: quick_test                   *)
(* effective_edge_cost and FocusedRoutingTests.multimodal_astar_weight.    *)
(***************************************************************************)
CAR_PENALTY == 30000
SUBWAY_BONUS == 15000
WALK_REWARD == 5000
BIKE_HEALTH_BONUS == 10000
CostFloor == 100             \* max(cost, 0.1)
TransferPenalty == 300000    \* base_cost += 300
DefaultLength == 100         \* d.get('length', 100)

\* multimodal_graph_utils.Mode, the values of its members
ModeCAR == "car"
ModeGTFS == "transit"
ModeWALK == "pedestrian"
ModeBIKE == "bike"

Max2(a, b) == IF a >= b THEN a ELSE b

\* the cost before max(cost, 0.1)
effective_edge_cost_unfloored(edge) ==
  LET cost0 == Get(edge, "travel_time", 0)
      mode  == Get(edge, "travel_mode", "")
      cost1 == IF mode = ModeCAR THEN cost0 + CAR_PENALTY ELSE cost0
      cost2 == IF mode = ModeGTFS THEN cost1 - SUBWAY_BONUS ELSE cost1
      cost3 == IF mode = ModeWALK THEN cost2 - WALK_REWARD ELSE cost2
  IN  IF mode = ModeBIKE THEN cost3 - BIKE_HEALTH_BONUS ELSE cost3
effective_edge_cost(edge) ==
  LET cost0 == Get(edge, "travel_time", 0)
      mode  == Get(edge, "travel_mode", "")
      cost1 == IF mode = ModeCAR THEN cost0 + CAR_PENALTY ELSE cost0
      cost2 == IF mode = ModeGTFS THEN cost1 - SUBWAY_BONUS ELSE cost1
      cost3 == IF mode = ModeWALK THEN cost2 - WALK_REWARD ELSE cost2
      cost4 == IF mode = ModeBIKE THEN cost3 - BIKE_HEALTH_BONUS ELSE cost3
  IN  Max2(cost4, CostFloor)

\* length / 5 * 3.6 seconds, in milliseconds
LengthBasedCost(length) == length * 720

multimodal_astar_weight(d) ==
  LET base_cost == Get(d, "travel_time", LengthBasedCost(Get(d, "length", DefaultLength)))
  IN  IF Get(d, "is_transfer", FALSE) THEN base_cost + TransferPenalty ELSE base_cost

\* the attribute maps of the edges: each attribute is there or not
Absent == "absent"

EdgeModes == {"car", "bike", "transit", "pedestrian", "transfer", "bixi_transfer", Absent}

EdgeTimes == {0, 50, 4000, 12000, 216000}

EdgeLengths == {0, 312}

EdgeAttributes(mode, time, length, is_transfer) ==
  LET keys == (IF mode = Absent THEN {} ELSE {"travel_mode"})
              \cup (IF time = {} THEN {} ELSE {"travel_time"})
              \cup (IF length = {} THEN {} ELSE {"length"})
              \cup (IF is_transfer = {} THEN {} ELSE {"is_transfer"})
  IN  [k \in keys |->
         CASE k = "travel_mode" -> mode
           [] k = "travel_time" -> CHOOSE t \in time : TRUE
           [] k = "length"      -> CHOOSE l \in length : TRUE
           [] k = "is_transfer" -> CHOOSE b \in is_transfer : TRUE]

Optional(S) == {{}} \cup {{v} : v \in S}

InitCost ==
  /\ \E mode \in EdgeModes, time \in Optional(EdgeTimes), length \in Optional(EdgeLengths),
        is_transfer \in Optional({TRUE}) :
       edge_data = EdgeAttributes(mode, time, length, is_transfer)
  /\ cost = NotYet
  /\ weight = NotYet
  /\ IdleMerge /\ IdleSynth /\ IdleGtfs /\ IdleTraffic
  /\ IdleFeed /\ IdleRoute

EffectiveEdgeCost ==
  /\ ~cost.done
  /\ cost' = [done |-> TRUE, value |-> effective_edge_cost(edge_data)]
  /\ UNCHANGED <<edge_data, weight, varsMerge, varsSynth, varsGtfs, varsTraffic, varsFeed, varsRoute>>

MultimodalAstarWeight ==
  /\ ~weight.done
  /\ weight' = [done |-> TRUE, value |-> multimodal_astar_weight(edge_data)]
  /\ UNCHANGED <<edge_data, cost, varsMerge, varsSynth, varsGtfs, varsTraffic, varsFeed, varsRoute>>

NextCost == EffectiveEdgeCost \/ MultimodalAstarWeight

SpecCost == InitCost /\ [][NextCost]_vars

(***************************************************************************)
(* traffic_data.TrafficDataProcessor.  A place is a point (lon, lat) of a  *)
(* grid of 0.01 degrees.  The planar distance of the class takes 111.32 km *)
(* for a degree of latitude and 111.32 km * cos(latitude) for a degree of  *)
(* longitude: RowM metres per grid row and ColM metres per grid column at  *)
(* latitude 45.5.  A multiplier is a whole number of thousandths (1.0 is   *)
(* 1000); NaN is the float that is not a number.                           *)
(***************************************************************************)
MaxCol == 13          \* grid columns 0..MaxCol (longitude)
MaxRow == 1           \* grid rows 0..MaxRow (latitude)
MaxSamples == 2       \* the most traffic samples of the feed
MaxSampleCol == 2     \* the samples lie in columns 0..MaxSampleCol of row 0

Places == (0..MaxCol) \X (0..MaxRow)

RowM == 1113
ColM == 780

PlanarTable ==
  [dx \in 0..MaxCol, dy \in 0..MaxRow |->
     LET ex == dx * ColM
         ny == dy * RowM
         lo == IF ex > ny THEN ex ELSE ny
     IN  CHOOSE r \in lo..(ex + ny) :
           r * r <= ex * ex + ny * ny /\ (r + 1) * (r + 1) > ex * ex + ny * ny]

calculate_distance_km(lat1, lon1, lat2, lon2) ==
  PlanarTable[Abs(lon2 - lon1), Abs(lat2 - lat1)]

\* Place Ville Marie, the origin of the grid
downtown_center == [lat |-> 0, lon |-> 0]

NaN == -1

\* process_traffic_data: the factor of each period, in tenths
time_periods ==
  [morning_rush |-> 15, midday |-> 10, evening_rush |-> 16, night |-> 4]

\* time_profiles before process_traffic_data has run
NoProfiles == [period \in {} |-> <<>>]

\* Python floats have a fixed number of significant bits, here MantissaBits:
\* a float is m * 2^e with m of MantissaBits bits, or 0
MantissaBits == 10

RECURSIVE Pow2(_)
Pow2(k) == IF k = 0 THEN 1 ELSE 2 * Pow2(k - 1)

\* the mantissa of a float is in MinMantissa..(MantissaEnd - 1)
MantissaEnd == Pow2(MantissaBits)

MinMantissa == Pow2(MantissaBits - 1)

\* the float nearest to (num / den) * 2^e, a tie going to the even one
RECURSIVE RoundFloat(_, _, _)
RoundFloat(num, den, e) ==
  IF num = 0 THEN [m |-> 0, e |-> 0]
  ELSE IF num >= den * MantissaEnd THEN RoundFloat(num, den * 2, e + 1)
  ELSE IF num < den * MinMantissa THEN RoundFloat(num * 2, den, e - 1)
  ELSE LET q  == num \div den
           r  == num % den
           up == 2 * r > den \/ (2 * r = den /\ q % 2 = 1)
           m  == IF up THEN q + 1 ELSE q
       IN  IF m = MantissaEnd
             THEN [m |-> MinMantissa, e |-> e + 1]
             ELSE [m |-> m, e |-> e]

\* the float of a decimal literal such as 0.4
FloatOf(num, den) == RoundFloat(num, den, 0)

\* int * float
IntTimesFloat(n, f) == RoundFloat(n * f.m, 1, f.e)

\* float / float, the divisor not 0
FloatDiv(a, b) == RoundFloat(a.m, b.m, a.e - b.e)

FloatLeq(a, b) ==
  IF a.m = 0 THEN TRUE
  ELSE IF b.m = 0 THEN FALSE
  ELSE IF a.e # b.e THEN a.e < b.e
  ELSE a.m <= b.m

\* the thousandths in a float, rounded down
Thousandths(f) ==
  IF f.e >= 0 THEN f.m * Pow2(f.e) * 1000 ELSE (f.m * 1000) \div Pow2(0 - f.e)

\* info['factor'], a float
PeriodFactor == [period \in DOMAIN time_periods |-> FloatOf(time_periods[period], 10)]

\* lines 165-170: the volume of each sample times the factor of the period,
\* a float
process_traffic_data(feed) ==
  [period \in DOMAIN time_periods |->
     [i \in DOMAIN feed |->
        [lat    |-> feed[i].lat,
         lon    |-> feed[i].lon,
         volume |-> IntTimesFloat(feed[i].volume, PeriodFactor[period])]]]

\* lines 178-186
PeriodOf(hour) ==
  IF 7 <= hour /\ hour <= 9 THEN "morning_rush"
  ELSE IF 10 <= hour /\ hour <= 15 THEN "midday"
  ELSE IF 16 <= hour /\ hour <= 19 THEN "evening_rush"
  ELSE "night"

\* 1 / (1 + exp(-5 * (v - 0.5))) in thousandths, at v = 0.0, 0.1, ..., 1.0
SigmoidTable == <<76, 119, 182, 269, 378, 500, 622, 731, 818, 881, 924>>

congestion_level(normalized_volume) ==
  SigmoidTable[(normalized_volume \div 100) + 1]

\* volume / profile.max(), in thousandths; 0.0 / 0.0 is nan
normalized_volume(volume, max) ==
  IF max.m = 0 THEN NaN ELSE Thousandths(FloatDiv(volume, max))

ProfileMax(profile) ==
  CHOOSE max \in {profile[i].volume : i \in DOMAIN profile} :
    \A i \in DOMAIN profile : FloatLeq(profile[i].volume, max)

\* distances.idxmin(): the first of the nearest samples
NearestSample(profile, lat, lon) ==
  LET distance(i) == calculate_distance_km(profile[i].lat, profile[i].lon, lat, lon)
  IN  CHOOSE i \in DOMAIN profile :
        /\ \A j \in DOMAIN profile : distance(i) <= distance(j)
        /\ \A j \in 1..(i - 1) : distance(j) > distance(i)

TrafficRadius == 2000       \* distances.min() > 2.0

\* 1.0 + (congestion_level * 2.0)
TrafficMultiplierOf(level) == 1000 + level * 2

BeyondRadius(distance) == distance > TrafficRadius

get_traffic_multiplier(profiles, lat, lon, hour) ==
  IF DOMAIN profiles = {} THEN 1000
  ELSE IF PeriodOf(hour) \notin DOMAIN profiles THEN 1000
  ELSE LET profile     == profiles[PeriodOf(hour)]
           nearest_idx == NearestSample(profile, lat, lon)
           nearest     == profile[nearest_idx]
           normalized  == normalized_volume(nearest.volume, ProfileMax(profile))
       IN  IF BeyondRadius(calculate_distance_km(nearest.lat, nearest.lon, lat, lon))
             THEN 1000
           ELSE IF normalized = NaN THEN NaN
           ELSE TrafficMultiplierOf(congestion_level(normalized))

(***************************************************************************)
(* get_traffic_multiplier on the profiles of a feed.  The samples of a     *)
(* feed are the midpoints of different road segments: no two at one place. *)
(***************************************************************************)
SampleVolumes == {0, 5000, 10000}

TrafficSamples == [lat : {0}, lon : 0..MaxSampleCol, volume : SampleVolumes]

TrafficFeeds ==
  UNION {{f \in [1..n -> TrafficSamples] :
            \A i \in 1..n, j \in 1..n : f[i].lon = f[j].lon => i = j} :
         n \in 1..MaxSamples}

\* download_traffic_data failed (no profiles) or process_traffic_data ran
ProfileSets == {NoProfiles} \cup {process_traffic_data(f) : f \in TrafficFeeds}

ClockHours == {6, 7, 9, 10, 15, 16, 19, 20}

InitTraffic ==
  /\ time_profiles \in ProfileSets
  /\ reference_time \in ClockHours
  /\ position \in Places
  /\ multiplier = NotYet
  /\ car_graph = Idle /\ applied = Idle /\ road = Idle /\ penalty = Idle
  /\ time_of_day = Idle /\ duration_hours = Idle /\ parking = Idle
  /\ IdleMerge /\ IdleSynth /\ IdleGtfs /\ IdleCost
  /\ IdleFeed /\ IdleRoute

GetTrafficMultiplier ==
  /\ ~multiplier.done
  /\ multiplier' = [done  |-> TRUE,
                    value |-> get_traffic_multiplier(time_profiles, position[2],
                                                     position[1], reference_time)]
  /\ UNCHANGED <<time_profiles, reference_time, position, car_graph, applied, road,
                 penalty, time_of_day, duration_hours, parking,
                 varsMerge, varsSynth, varsGtfs, varsCost,
                 varsFeed, varsRoute>>

NextTraffic == GetTrafficMultiplier

SpecTraffic == InitTraffic /\ [][NextTraffic]_vars

(***************************************************************************)
(* _calculate_zoning_penalty.  The value of an OSM tag is a string or a    *)
(* list of strings.  A penalty is a whole number of PenaltyOne-ths: the    *)
(* product of three factors in tenths and of the traffic penalty           *)
(* 1.0 + (multiplier - 1.0) * 0.5, a whole number of 2000ths.              *)
(***************************************************************************)
PenaltyOne == 2000000
MaxPenalty == 3 * PenaltyOne     \* min(penalty, 3.0)

Tag(s) == [is_list |-> FALSE, items |-> <<s>>]

TagList(items) == [is_list |-> TRUE, items |-> items]

highway_penalties ==
  [motorway |-> 10, trunk |-> 11, primary |-> 12, secondary |-> 13,
   tertiary |-> 14, residential |-> 11, service |-> 12, unclassified |-> 13]

DefaultHighwayPenalty == 12      \* highway_penalties.get(highway_type, 1.2)

\* lines 316-331
HighwayFactor(data) ==
  LET highway_type == Get(data, "highway", Tag("residential")).items[1]
  IN  IF highway_type \in DOMAIN highway_penalties
        THEN highway_penalties[highway_type]
        ELSE DefaultHighwayPenalty

\* lines 340-346
DowntownFactor(downtown_distance) ==
  IF downtown_distance <= 2000 THEN 18
  ELSE IF downtown_distance <= 5000 THEN 15
  ELSE IF downtown_distance <= 10000 THEN 12
  ELSE 10

commercial_indicators ==
  {"commercial", "retail", "shop", "restaurant", "hospital", "school",
   "university", "mall"}

zoning_keys == <<"amenity", "landuse", "shop", "tourism">>

\* value[0] if value else '' for a list; the values of the model are single
\* words, which hold an indicator when they are one
IsCommercial(value) ==
  LET word == IF value.items = <<>> THEN "" ELSE value.items[1]
  IN  word \in commercial_indicators

\* lines 349-363: times 1.3 at the first commercial key, then break (the
\* factor goes from hundredths to thousandths)
RECURSIVE CommercialFrom(_, _, _)
CommercialFrom(data, factor, i) ==
  IF i > Len(zoning_keys) THEN factor * 10
  ELSE IF zoning_keys[i] \in DOMAIN data /\ IsCommercial(data[zoning_keys[i]])
    THEN factor * 13
  ELSE CommercialFrom(data, factor, i + 1)

\* 1.0 + (traffic_multiplier - 1.0) * 0.5, in 2000ths
traffic_penalty(traffic_multiplier) == 1000 + traffic_multiplier

Min2(a, b) == IF a <= b THEN a ELSE b

_calculate_zoning_penalty(profiles, now, data, lat, lon) ==
  LET downtown_distance == calculate_distance_km(lat, lon, downtown_center.lat,
                                                 downtown_center.lon)
      zoned   == CommercialFrom(data,
                                HighwayFactor(data) * DowntownFactor(downtown_distance), 1)
      traffic == get_traffic_multiplier(profiles, lat, lon, now)
  IN  IF DOMAIN profiles = {} THEN Min2(zoned * 2000, MaxPenalty)
      ELSE IF traffic = NaN THEN NaN
      ELSE Min2(zoned * traffic_penalty(traffic), MaxPenalty)

HighwayValues ==
  {Tag(h) : h \in DOMAIN highway_penalties}
    \cup {Tag("living_street"), TagList(<<"primary", "secondary">>)}

\* the attribute maps of the road edges: each tag is there or not
RoadAttributes(highway, amenity, landuse, shop) ==
  LET keys == (IF highway = {} THEN {} ELSE {"highway"})
              \cup (IF amenity = {} THEN {} ELSE {"amenity"})
              \cup (IF landuse = {} THEN {} ELSE {"landuse"})
              \cup (IF shop = {} THEN {} ELSE {"shop"})
  IN  [k \in keys |->
         CASE k = "highway" -> CHOOSE v \in highway : TRUE
           [] k = "amenity" -> CHOOSE v \in amenity : TRUE
           [] k = "landuse" -> CHOOSE v \in landuse : TRUE
           [] k = "shop"    -> CHOOSE v \in shop : TRUE]

\* the feeds whose samples lie in the columns 0, 1, ... in this order
FeedsInColumnOrder == {f \in TrafficFeeds : \A i \in DOMAIN f : f[i].lon = i - 1}

\* download_traffic_data failed (no profiles) or process_traffic_data ran
\* on such a feed
ProfilesInColumnOrder ==
  {NoProfiles} \cup {process_traffic_data(f) : f \in FeedsInColumnOrder}

InitZoning ==
  /\ \E highway \in Optional(HighwayValues),
        amenity \in Optional({Tag("restaurant"), Tag("parking")}),
        landuse \in Optional({TagList(<<"retail", "residential">>)}),
        shop \in Optional({Tag("mall")}) :
       road = RoadAttributes(highway, amenity, landuse, shop)
  /\ position \in Places
  /\ time_profiles \in ProfilesInColumnOrder
  /\ reference_time \in {8, 12}
  /\ penalty = NotYet
  /\ multiplier = Idle /\ car_graph = Idle /\ applied = Idle
  /\ time_of_day = Idle /\ duration_hours = Idle /\ parking = Idle
  /\ IdleMerge /\ IdleSynth /\ IdleGtfs /\ IdleCost
  /\ IdleFeed /\ IdleRoute

CalculateZoningPenalty ==
  /\ ~penalty.done
  /\ penalty' = [done  |-> TRUE,
                 value |-> _calculate_zoning_penalty(time_profiles, reference_time, road,
                                                     position[2], position[1])]
  /\ UNCHANGED <<time_profiles, reference_time, position, multiplier, car_graph, applied,
                 road, time_of_day, duration_hours, parking,
                 varsMerge, varsSynth, varsGtfs, varsCost,
                 varsFeed, varsRoute>>

NextZoning == CalculateZoningPenalty

SpecZoning == InitZoning /\ [][NextZoning]_vars

(***************************************************************************)
(* apply_traffic_to_graph.  A maxspeed string is the sequence of its runs  *)
(* of digits and of other characters: "30 mph" is <<Digits(30), Text>>.    *)
(* A length is in metres, a speed in km/h.                                 *)
(***************************************************************************)
Digits(n) == [digits |-> TRUE, n |-> n]

Text == [digits |-> FALSE, n |-> 0]

DefaultSpeed == 50

\* float(s): s is one run of digits, else ValueError
IsNumber(s) == Len(s) = 1 /\ s[1].digits

\* re.search(r'\d+', s): the first run of digits
FirstDigits(s) == {i \in DOMAIN s : s[i].digits /\ \A j \in 1..(i - 1) : ~s[j].digits}

\* _parse_speed: the first element of a list as a number, else the first run
\* of digits of the string, else 50; 50 too when anything raises
_parse_speed(speed_str) ==
  IF speed_str.is_list
    THEN IF speed_str.items # <<>> /\ IsNumber(speed_str.items[1])
           THEN speed_str.items[1][1].n ELSE DefaultSpeed
    ELSE LET s == speed_str.items[1]
         IN  IF FirstDigits(s) # {} THEN s[CHOOSE i \in FirstDigits(s) : TRUE].n
             ELSE DefaultSpeed

\* (length_km / speed) * 3600, in milliseconds
BaseTime(length, speed) == (length * 3600) \div speed

\* the free-flow time stored as the travel time
CongestedTimeFreeFlow(base_time, traffic) == base_time
\* base_time * multiplier
CongestedTime(base_time, traffic) ==
  IF traffic = NaN THEN NaN ELSE (base_time * traffic) \div 1000

\* lines 227-245: the midpoint of the geometry, else of the two end nodes;
\* none when a node has no coordinates
EdgePlace(graph, e) ==
  LET geometry == Get(e.data, "geometry", [kind |-> "none", points |-> <<>>])
      u_node   == NodeData(graph, e.u)
      v_node   == NodeData(graph, e.v)
  IN  IF geometry.kind = "list" /\ Len(geometry.points) >= 2
        THEN <<geometry.points[(Len(geometry.points) \div 2) + 1]>>
      ELSE IF geometry.kind = "LineString"
        THEN <<geometry.points[(Len(geometry.points) + 1) \div 2]>>
      ELSE IF HasCoord(u_node) /\ HasCoord(v_node)
        THEN << <<(u_node.x + v_node.x) \div 2, (u_node.y + v_node.y) \div 2>> >>
      ELSE <<>>

\* lines 247-257: one edge
TrafficOnEdge(graph, e, profiles, reference) ==
  LET place   == EdgePlace(graph, e)
      traffic == get_traffic_multiplier(profiles, place[1][2], place[1][1], reference)
      speed   == _parse_speed(Get(e.data, "maxspeed", Tag(<<Digits(DefaultSpeed)>>)))
  IN  IF place = <<>> \/ "length" \notin DOMAIN e.data THEN e
      ELSE [e EXCEPT !.data =
              Update(@, [travel_time        |-> CongestedTime(BaseTime(e.data.length, speed),
                                                              traffic),
                         traffic_multiplier |-> traffic])]

\* the graph after the call: the attributes of its edges are changed in place
apply_traffic_to_graph(graph, profiles, reference) ==
  [graph EXCEPT !.edges = {TrafficOnEdge(graph, e, profiles, reference) : e \in graph.edges}]

\* what the call evaluates to: the body ends after the loop (line 259)
\* without a return statement, so the call gives None; graph is the graph
\* with its edges changed
ApplyTrafficReturn(graph) == None

MaxSpeeds ==
  { Tag(<<Digits(50)>>), Tag(<<Digits(30), Text>>), Tag(<<Text>>),
    TagList(<< <<Digits(40)>>, <<Digits(60)>> >>),
    TagList(<< <<Digits(30), Text>>, <<Digits(40)>> >>) }

RoadLengths == {312, 1000}

\* a street of the drive network: its attributes, each there or not
StreetAttributes(length, maxspeed, geometry) ==
  LET keys == (IF length = {} THEN {} ELSE {"length"})
              \cup (IF maxspeed = {} THEN {} ELSE {"maxspeed"})
              \cup (IF geometry = {} THEN {} ELSE {"geometry"})
  IN  [k \in keys |->
         CASE k = "length"   -> CHOOSE v \in length : TRUE
           [] k = "maxspeed" -> CHOOSE v \in maxspeed : TRUE
           [] k = "geometry" -> CHOOSE v \in geometry : TRUE]

\* ox.graph_from_place: two nodes of the drive network, the street between
\* them and the street back
DriveGraph(from, to, data) ==
  add_edge(add_edge(add_node(add_node(EmptyGraph, OsmNode(1), [x |-> from[1], y |-> from[2]]),
                             OsmNode(2), [x |-> to[1], y |-> to[2]]),
                    OsmNode(1), OsmNode(2), data),
           OsmNode(2), OsmNode(1), [k \in {"length"} |-> 312])

\* the shapes of a street from one place to another, by way of its middle
Geometries(from, middle, to) ==
  { [kind |-> "list", points |-> <<from, to>>],
    [kind |-> "LineString", points |-> <<from, middle, to>>] }

InitApply ==
  /\ \E c \in 0..(MaxCol - 2), d \in {0, 1} :
       \E length \in Optional(RoadLengths), maxspeed \in Optional(MaxSpeeds),
          geometry \in Optional(Geometries(<<c, 0>>, <<c + d, 0>>, <<c + 2 * d, 0>>)) :
         car_graph = DriveGraph(<<c, 0>>, <<c + 2 * d, 0>>,
                                StreetAttributes(length, maxspeed, geometry))
  /\ time_profiles \in ProfilesInColumnOrder
  /\ reference_time \in {8, 22}
  /\ applied = NotYet
  /\ position = Idle /\ multiplier = Idle /\ road = Idle /\ penalty = Idle
  /\ time_of_day = Idle /\ duration_hours = Idle /\ parking = Idle
  /\ IdleMerge /\ IdleSynth /\ IdleGtfs /\ IdleCost
  /\ IdleFeed /\ IdleRoute

ApplyTrafficToGraph ==
  /\ ~applied.done
  /\ applied' = [done     |-> TRUE,
                 G        |-> apply_traffic_to_graph(car_graph, time_profiles,
                                                     reference_time),
                 returned |-> ApplyTrafficReturn(
                                apply_traffic_to_graph(car_graph, time_profiles,
                                                       reference_time))]
  /\ UNCHANGED <<time_profiles, reference_time, position, multiplier, car_graph, road,
                 penalty, time_of_day, duration_hours, parking,
                 varsMerge, varsSynth, varsGtfs, varsCost,
                 varsFeed, varsRoute>>

NextApply == ApplyTrafficToGraph

SpecApply == InitApply /\ [][NextApply]_vars

(***************************************************************************)
(* apply_zoning_travel_time_penalty, called twice on equal graphs with the *)
(* same reference_time and the same profiles, each call at its own hour of *)
(* the wall clock.                                                         *)
(***************************************************************************)
\* travel_time *= penalty_factor: the product in milliseconds, rounded down
TimesPenalty(travel_time, penalty_factor) ==
  LET whole == penalty_factor \div PenaltyOne
      rest  == penalty_factor % PenaltyOne
  IN  IF penalty_factor = NaN THEN NaN
      ELSE travel_time * whole
             + (travel_time * (rest \div 2000) + (travel_time * (rest % 2000)) \div 2000)
               \div 1000

\* lines 273-304: one edge; _calculate_zoning_penalty gets the edge and its
\* place, not reference_time, and reads the wall clock (line 367)
ZoningOnEdge(graph, e, profiles, reference, now) ==
  LET place          == EdgePlace(graph, e)
      penalty_factor == _calculate_zoning_penalty(profiles, now, e.data,
                                                  place[1][2], place[1][1])
  IN  IF place = <<>> \/ "travel_time" \notin DOMAIN e.data THEN e
      ELSE [e EXCEPT !.data =
              Update(@, [travel_time    |-> TimesPenalty(e.data.travel_time, penalty_factor),
                         zoning_penalty |-> penalty_factor])]

\* lines 261-307: the graph returned, now being the hour of datetime.now()
\* while the call runs
apply_zoning_travel_time_penalty(graph, profiles, reference, now) ==
  [graph EXCEPT !.edges = {ZoningOnEdge(graph, e, profiles, reference, now) :
                             e \in graph.edges}]

\* DJMA counts of the feed
CountedVolumes == {21, 30, 5000}

CountedFeeds ==
  {f \in [1..2 -> [lat : {0}, lon : 0..1, volume : CountedVolumes]] :
     \A i \in DOMAIN f : f[i].lon = i - 1}

CountedProfiles == {NoProfiles} \cup {process_traffic_data(f) : f \in CountedFeeds}

\* a street that apply_traffic_to_graph may have given a travel time
ZonedStreet(travel_time, highway, amenity) ==
  LET keys == {"length"}
              \cup (IF travel_time = {} THEN {} ELSE {"travel_time"})
              \cup (IF highway = {} THEN {} ELSE {"highway"})
              \cup (IF amenity = {} THEN {} ELSE {"amenity"})
  IN  [k \in keys |->
         CASE k = "length"      -> 312
           [] k = "travel_time" -> CHOOSE v \in travel_time : TRUE
           [] k = "highway"     -> CHOOSE v \in highway : TRUE
           [] k = "amenity"     -> CHOOSE v \in amenity : TRUE]

\* the hours of the wall clock at which a call may run
WallClockHours == {12, 17}

InitPenalty ==
  /\ \E c \in {0, 6, MaxCol - 2} :
       \E travel_time \in Optional({22464, 72000}),
          highway \in Optional({Tag("motorway"), Tag("primary")}),
          amenity \in Optional({Tag("restaurant")}) :
         car_graph = DriveGraph(<<c, 0>>, <<c + 2, 0>>,
                                ZonedStreet(travel_time, highway, amenity))
  /\ time_profiles \in CountedProfiles
  /\ reference_time \in {8, 22}
  /\ zoning_calls = <<>>
  /\ traffic_data = Idle /\ parking_density_map = Idle /\ calls = Idle
  /\ applied = Idle /\ position = Idle /\ multiplier = Idle /\ road = Idle
  /\ penalty = Idle /\ time_of_day = Idle /\ duration_hours = Idle /\ parking = Idle
  /\ IdleMerge /\ IdleSynth /\ IdleGtfs /\ IdleCost /\ IdleRoute

ApplyZoningTravelTimePenalty ==
  /\ Len(zoning_calls) < 2
  /\ \E now \in WallClockHours :
       zoning_calls' =
         Append(zoning_calls,
                [now |-> now,
                 G   |-> apply_zoning_travel_time_penalty(car_graph, time_profiles,
                                                          reference_time, now)])
  /\ UNCHANGED <<time_profiles, reference_time, position, multiplier, car_graph, applied,
                 road, penalty, time_of_day, duration_hours, parking,
                 traffic_data, parking_density_map, calls,
                 varsMerge, varsSynth, varsGtfs, varsCost, varsRoute>>

NextPenalty == ApplyZoningTravelTimePenalty

SpecPenalty == InitPenalty /\ [][NextPenalty]_vars

(***************************************************************************)
(* get_parking_cost_info of a processor without a density map              *)
(* (parking_density_map is None, as after construction).  A rate and a     *)
(* cost are in cents, a search time in tenths of a minute, a time factor   *)
(* in tenths, a distance in metres.                                        *)
(***************************************************************************)
\* lines 443-450: rate, search time and zone by the distance to downtown
FallbackTier(distance) ==
  IF distance <= 2000 THEN [rate |-> 800, search_time |-> 150, zone |-> "downtown_core"]
  ELSE IF distance <= 4000
    THEN [rate |-> 500, search_time |-> 100, zone |-> "downtown_extended"]
  ELSE IF distance <= 8000
    THEN [rate |-> 300, search_time |-> 80, zone |-> "urban_dense"]
  ELSE [rate |-> 100, search_time |-> 30, zone |-> "suburban"]

\* line 452
time_factor(time) ==
  CASE time = "business" -> 10
    [] time = "evening"  -> 7
    [] time = "weekend"  -> 8
    [] OTHER             -> 10

\* round(distance, 2): to the nearest 10 metres
RoundToTen(distance) == ((distance + 5) \div 10) * 10

_get_fallback_parking_cost(lat, lon, duration, time) ==
  LET distance == calculate_distance_km(lat, lon, downtown_center.lat, downtown_center.lon)
      tier     == FallbackTier(distance)
  IN  [zone                    |-> tier.zone,
       hourly_rate             |-> (tier.rate * time_factor(time)) \div 10,
       total_cost              |-> (tier.rate * time_factor(time) * duration) \div 10,
       search_time_minutes     |-> (tier.search_time * time_factor(time)) \div 10,
       distance_to_downtown_km |-> RoundToTen(distance),
       data_source             |-> "distance_fallback"]

\* lines 385-387
get_parking_cost_info(lat, lon, duration, time) ==
  _get_fallback_parking_cost(lat, lon, duration, time)

TimesOfDay == {"business", "evening", "weekend", "night"}

Durations == {1, 2, 3}

InitParking ==
  /\ position \in Places
  /\ time_of_day \in TimesOfDay
  /\ duration_hours \in Durations
  /\ parking = NotYet
  /\ time_profiles = Idle /\ reference_time = Idle /\ multiplier = Idle
  /\ car_graph = Idle /\ applied = Idle /\ road = Idle /\ penalty = Idle
  /\ parking_density_map = None
  /\ traffic_data = Idle /\ calls = Idle /\ zoning_calls = Idle
  /\ IdleMerge /\ IdleSynth /\ IdleGtfs /\ IdleCost /\ IdleRoute

GetParkingCostInfo ==
  /\ ~parking.done
  /\ parking_density_map = None
  /\ parking' = [done |-> TRUE,
                 info |-> get_parking_cost_info(position[2], position[1],
                                                duration_hours, time_of_day)]
  /\ UNCHANGED <<time_profiles, reference_time, position, multiplier, car_graph, applied,
                 road, penalty, time_of_day, duration_hours,
                 varsMerge, varsSynth, varsGtfs, varsCost,
                 varsFeed, varsRoute>>

NextParking == GetParkingCostInfo

SpecParking == InitParking /\ [][NextParking]_vars

(***************************************************************************)
(* create_density_based_parking_costs.  A density score is in tenths of a  *)
(* vehicle (volume times the weight of the road class in tenths), a        *)
(* parking rate in cents, a search time in tenths of a minute.             *)
(***************************************************************************)
\* lines 100-107, in tenths
class_weights(road_class) ==
  CASE road_class = "Highway"        -> 30
    [] road_class = "Major Arterial" -> 25
    [] road_class = "Minor Arterial" -> 20
    [] road_class = "Collector"      -> 15
    [] OTHER                         -> 10

\* line 108
density_score(row) == row.volume * class_weights(row.road_class)

MaxOf(S) == CHOOSE m \in S : \A n \in S : n <= m

\* lines 124-133: low + (score - min) / (max - min) * span; 0.0 / 0.0 is nan
Rescale(score, min_density, max_density, low, span) ==
  IF max_density = min_density THEN NaN
  ELSE low + ((score - min_density) * span) \div (max_density - min_density)

\* the parking_density_map the call leaves
create_density_based_parking_costs(rows) ==
  LET scores      == {density_score(rows[i]) : i \in DOMAIN rows}
      max_density == MaxOf(scores)
      min_density == Min(scores)
  IN  [i \in DOMAIN rows |->
         [lat           |-> rows[i].lat,
          lon           |-> rows[i].lon,
          density_score |-> density_score(rows[i]),
          road_class    |-> rows[i].road_class,
          parking_rate  |-> Rescale(density_score(rows[i]), min_density, max_density,
                                    100, 700),
          search_time   |-> Rescale(density_score(rows[i]), min_density, max_density,
                                    20, 130)]]

\* a data frame of pandas with its rows
Frame(rows) == [rows |-> rows]

RoadClasses == {"Highway", "Collector", "local"}

ClassedSamples ==
  [lat : {0}, lon : 0..MaxSampleCol, volume : SampleVolumes, road_class : RoadClasses]

\* the samples download_traffic_data left: some, at different places
ClassedFeeds ==
  UNION {{f \in [1..n -> ClassedSamples] :
            \A i \in 1..n, j \in 1..n : f[i].lon = f[j].lon => i = j} :
         n \in 1..MaxSamples}

InitDensity ==
  /\ traffic_data \in {None} \cup {Frame(f) : f \in ClassedFeeds}
  /\ parking_density_map = None
  /\ calls = <<>>
  /\ zoning_calls = Idle
  /\ IdleMerge /\ IdleSynth /\ IdleGtfs /\ IdleCost /\ IdleTraffic /\ IdleRoute

\* lines 88-89: nothing without traffic data
CreateDensityBasedParkingCosts ==
  /\ calls = <<>>
  /\ calls' = <<[op |-> "create_density_based_parking_costs"]>>
  /\ parking_density_map' =
       IF traffic_data = None THEN parking_density_map
       ELSE Frame(create_density_based_parking_costs(traffic_data.rows))
  /\ UNCHANGED <<traffic_data, zoning_calls,
                 varsMerge, varsSynth, varsGtfs, varsCost, varsTraffic, varsRoute>>

NextDensity == CreateDensityBasedParkingCosts

SpecDensity == InitDensity /\ [][NextDensity]_vars

(***************************************************************************)
(* The calls on one TrafficDataProcessor in any order: it is constructed   *)
(* without traffic data and without profiles; download_traffic_data reads  *)
(* the feed or fails, process_traffic_data makes the profiles,             *)
(* get_traffic_multiplier is asked at a place and an hour.                 *)
(***************************************************************************)
MaxCalls == 4       \* the most calls on the processor

Unreachable == [error |-> "read_file"]

\* the feeds the URL may hold: samples of 5000, 10000, ... vehicles
LifecycleFeeds == {f \in FeedsInColumnOrder : \A i \in DOMAIN f : f[i].volume = 5000 * i}

\* a download that drops the data it had when the feed cannot be read
download_traffic_data_clearing(fetched, data) ==
  IF fetched = Unreachable
    THEN [returned |-> FALSE, traffic_data |-> None]
    ELSE [returned |-> TRUE, traffic_data |-> fetched]
\* lines 36-66: what the call returns and the traffic_data it leaves, fetched
\* being what gpd.read_file gives for the URL; self.traffic_data is assigned
\* last in the try block (line 61)
download_traffic_data(fetched, data) ==
  IF fetched = Unreachable
    THEN [returned |-> FALSE, traffic_data |-> data]
    ELSE [returned |-> TRUE, traffic_data |-> fetched]

InitLifecycle ==
  /\ traffic_data = None
  /\ time_profiles = NoProfiles
  /\ parking_density_map = None
  /\ calls = <<>>
  /\ zoning_calls = Idle
  /\ reference_time = Idle /\ position = Idle /\ multiplier = Idle
  /\ car_graph = Idle /\ applied = Idle /\ road = Idle /\ penalty = Idle
  /\ time_of_day = Idle /\ duration_hours = Idle /\ parking = Idle
  /\ IdleMerge /\ IdleSynth /\ IdleGtfs /\ IdleCost /\ IdleRoute

Called(op, returned) == Append(calls, [op |-> op, returned |-> returned])

DownloadTrafficData ==
  /\ Len(calls) < MaxCalls
  /\ \E fetched \in {Unreachable} \cup {Frame(f) : f \in LifecycleFeeds} :
       LET r == download_traffic_data(fetched, traffic_data)
       IN  /\ traffic_data' = r.traffic_data
           /\ calls' = Called("download_traffic_data", r.returned)
  /\ UNCHANGED <<time_profiles, parking_density_map, zoning_calls, reference_time, position,
                 multiplier, car_graph, applied, road, penalty, time_of_day,
                 duration_hours, parking,
                 varsMerge, varsSynth, varsGtfs, varsCost, varsRoute>>

\* lines 153-172
ProcessTrafficData ==
  /\ Len(calls) < MaxCalls
  /\ IF traffic_data = None
       THEN /\ time_profiles' = time_profiles
            /\ calls' = Called("process_traffic_data", FALSE)
       ELSE /\ time_profiles' = process_traffic_data(traffic_data.rows)
            /\ calls' = Called("process_traffic_data", TRUE)
  /\ UNCHANGED <<traffic_data, parking_density_map, zoning_calls, reference_time, position,
                 multiplier, car_graph, applied, road, penalty, time_of_day,
                 duration_hours, parking,
                 varsMerge, varsSynth, varsGtfs, varsCost, varsRoute>>

AskTrafficMultiplier ==
  /\ Len(calls) < MaxCalls
  /\ \E place \in {<<0, 0>>, <<MaxCol, 0>>}, hour \in {8} :
       calls' = Called("get_traffic_multiplier",
                       get_traffic_multiplier(time_profiles, place[2], place[1], hour))
  /\ UNCHANGED <<traffic_data, time_profiles, parking_density_map, zoning_calls,
                 reference_time, position,
                 multiplier, car_graph, applied, road, penalty, time_of_day,
                 duration_hours, parking,
                 varsMerge, varsSynth, varsGtfs, varsCost, varsRoute>>

NextLifecycle == DownloadTrafficData \/ ProcessTrafficData \/ AskTrafficMultiplier

SpecLifecycle == InitLifecycle /\ [][NextLifecycle]_vars

(***************************************************************************)
(* The routing drivers: test_single_routing of simple_routing_tests and    *)
(* the loop of quick_test.main.  A graph is a chain of RouteNodes nodes;   *)
(* the edge from node k to node k + 1 is there with a travel time, is not  *)
(* there, or is there with a travel_time that is not a number, on which    *)
(* the weight function of the search raises.                               *)
(***************************************************************************)
RouteNodes == 3

num_tests == 3          \* test_single_routing(..., num_tests=3)

graph_names == 5        \* len(graph_names) of quick_test.main

Street == "street"

NoStreet == "none"

JunkStreet == "junk"

\* the chains; located: the nodes have coordinates
RouteGraphs ==
  [streets : [1..(RouteNodes - 1) -> {Street, NoStreet, JunkStreet}], located : BOOLEAN]

\* nx.astar_path(G, source, target, weight): the search goes along the chain
\* from the source and ends at the target with the path, at a street whose
\* weight cannot be added with TypeError, at the end of the streets with
\* NetworkXNoPath
RECURSIVE astar_path(_, _, _)
astar_path(G, source, target) ==
  IF source = target THEN "path"
  ELSE IF source = RouteNodes \/ G.streets[source] = NoStreet THEN "NetworkXNoPath"
  ELSE IF G.streets[source] = JunkStreet THEN "TypeError"
  ELSE astar_path(G, source + 1, target)

NodePairs == {p \in (1..RouteNodes) \X (1..RouteNodes) : p[1] # p[2]}

\* find_random_node_pair: a pair of different nodes with coordinates, none
\* when the nodes have no coordinates
find_random_node_pair(graph) == IF graph.located THEN NodePairs ELSE {None}

\* lines 108-137 of simple_routing_tests.py: the message of one test
SingleRoutingMessage(raised) ==
  CASE raised = "path"           -> "Found path"
    [] raised = "NetworkXNoPath" -> "No path found"
    [] OTHER                     -> "Error"

\* lines 63-83 of quick_test.py: the message of one routing; every exception
\* is caught by the one except clause
QuickTestMessage(raised) ==
  IF raised = "path" THEN "Path length" ELSE "Routing failed"

Routed(query, raised, message) ==
  [query |-> query, raised |-> raised, message |-> message]

InitRouting ==
  /\ driver \in {"test_single_routing", "quick_test.main"}
  /\ route_graph \in IF driver = "test_single_routing" THEN RouteGraphs ELSE {None}
  /\ qi = 0
  /\ reports = <<>>
  /\ times = {}
  /\ IdleMerge /\ IdleSynth /\ IdleGtfs /\ IdleCost /\ IdleTraffic /\ IdleFeed

\* one pass of the loop of test_single_routing
TestSingleRouting ==
  /\ driver = "test_single_routing"
  /\ qi < num_tests
  /\ qi' = qi + 1
  /\ \E pair \in find_random_node_pair(route_graph) :
       IF pair = None
         THEN /\ reports' = Append(reports, Routed(qi + 1, "no pair",
                                                   "Could not find suitable node pair"))
              /\ times' = times
         ELSE LET raised == astar_path(route_graph, pair[1], pair[2])
              IN  /\ reports' = Append(reports, Routed(qi + 1, raised,
                                                       SingleRoutingMessage(raised)))
                  /\ times' = IF raised = "path" THEN times \cup {qi + 1} ELSE times
  /\ UNCHANGED <<driver, route_graph, varsMerge, varsSynth, varsGtfs, varsCost,
                 varsTraffic, varsFeed>>

\* one pass of the loop of quick_test.main: the graph of the next file is
\* loaded, or is not, and routed on between two of its nodes
QuickTestMain ==
  /\ driver = "quick_test.main"
  /\ qi < graph_names
  /\ qi' = qi + 1
  /\ \E G \in {None} \cup {g \in RouteGraphs : g.located} :
       /\ route_graph' = G
       /\ IF G = None
            THEN /\ reports' = Append(reports, Routed(qi + 1, "not loaded",
                                                      "Failed to load"))
                 /\ times' = times
            ELSE \E pair \in NodePairs :
                   LET raised == astar_path(G, pair[1], pair[2])
                   IN  /\ reports' = Append(reports, Routed(qi + 1, raised,
                                                            QuickTestMessage(raised)))
                       /\ times' = IF raised = "path" THEN times \cup {qi + 1} ELSE times
  /\ UNCHANGED <<driver, varsMerge, varsSynth, varsGtfs, varsCost, varsTraffic, varsFeed>>

NextRouting == TestSingleRouting \/ QuickTestMain

SpecRouting == InitRouting /\ [][NextRouting]_vars

(***************************************************************************)
(* Properties                                                              *)
(***************************************************************************)
EdgesOfMode(G, mode) == {e \in G.edges : Get(e.data, "travel_mode", "") = mode}

EndCoord(G, n) == CoordOf(NodeData(G, n))

\* the distance, the stored distance and the walking time of a connector
TransferEdgeSound(G, e, max_km, speed_kmh) ==
  LET d == calculate_distance(EndCoord(G, e.u), EndCoord(G, e.v))
  IN  /\ d <= max_km
      /\ "distance_km" \in DOMAIN e.data /\ e.data.distance_km = d
      /\ "travel_time" \in DOMAIN e.data
      /\ e.data.travel_time * speed_kmh = e.data.distance_km * 3600

\* C1: every transfer edge made by add_transfer_edges or by
\* inject_bixi_into_bike_graph joins two nodes whose Haversine distance is at
\* most the maximum transfer distance (0.5 km), stores that distance as
\* distance_km, and has travel_time = distance_km / walking_speed_kmh * 3600
C1_TransferEdgesInRange ==
  /\ transferred.done =>
       \A e \in EdgesOfMode(transferred.G, "transfer") :
         TransferEdgeSound(transferred.G, e, 500, 5)
  /\ (injected.done /\ injected.ok) =>
       \A e \in EdgesOfMode(injected.G, "bixi_transfer") :
         TransferEdgeSound(injected.G, e, 500, 5)

\* C1 witness: both synthesizers have made a connector, one of them over a
\* distance that is not zero
C1_Witness ==
  /\ transferred.done /\ injected.done /\ injected.ok
  /\ \E e \in EdgesOfMode(transferred.G, "transfer") : e.data.distance_km > 0
  /\ EdgesOfMode(injected.G, "bixi_transfer") # {}

Reversed(G, e, mode) ==
  \E f \in EdgesOfMode(G, mode) :
    /\ f.u = e.v /\ f.v = e.u
    /\ f.data.travel_time = e.data.travel_time
    /\ f.data.distance_km = e.data.distance_km

\* C4: transfer edges are bidirectional: in the graph returned by
\* add_transfer_edges (and by inject_bixi_into_bike_graph) every transfer edge
\* a->b has a transfer edge b->a with the same travel_time and distance_km
C4_TransfersBidirectional ==
  /\ transferred.done =>
       \A e \in EdgesOfMode(transferred.G, "transfer") :
         Reversed(transferred.G, e, "transfer")
  /\ (injected.done /\ injected.ok) =>
       \A e \in EdgesOfMode(injected.G, "bixi_transfer") :
         Reversed(injected.G, e, "bixi_transfer")

\* the edges a synthesizer added to the graph it was given
Synthesized(result, given) == result.edges \ given.edges

IsTransferEdge(e) ==
  /\ Get(e.data, "travel_mode", "") = "transfer"
  /\ "transfer_from" \in DOMAIN e.data
  /\ "transfer_to" \in DOMAIN e.data

\* C5: every synthesized transfer edge, in the bike+bixi graph of
\* inject_bixi_into_bike_graph as in the graphs of add_transfer_edges, has
\* travel_mode = transfer and has transfer_from and transfer_to set
C5_TransferEdgesTagged ==
  /\ transferred.done =>
       \A e \in Synthesized(transferred.G, merged_graph) : IsTransferEdge(e)
  /\ (injected.done /\ injected.ok) =>
       \A e \in Synthesized(injected.G, BikeGraphOf(merged_graph)) : IsTransferEdge(e)

AllowList ==
  { {"car", "transit"}, {"car", "bixi"}, {"car", "bike"},
    {"bike", "transit"}, {"bixi", "transit"} }

\* C6: in a graph returned by add_transfer_edges every transfer edge goes from
\* a node of mode transfer_from to a node of mode transfer_to, the two modes
\* are a pair of the allow-list (in either direction) and both belong to the
\* mode list being merged; none joins two nodes of one mode
C6_TransfersOnlyOnAllowList ==
  transferred.done =>
    \A e \in EdgesOfMode(transferred.G, "transfer") :
      /\ NodeMode(NodeData(transferred.G, e.u)) = e.data.transfer_from
      /\ NodeMode(NodeData(transferred.G, e.v)) = e.data.transfer_to
      /\ e.data.transfer_from # e.data.transfer_to
      /\ {e.data.transfer_from, e.data.transfer_to} \in AllowList
      /\ In(e.data.transfer_from, modes) /\ In(e.data.transfer_to, modes)

NodesInRange(G, n1, n2) ==
  calculate_distance(CoordOf(n1.data), CoordOf(n2.data)) <= max_distance_km

\* C6 witness: a transfer edge was made in a graph that also holds, in range
\* of each other, a bike node and a bixi node, both modes being in the list
C6_Witness ==
  /\ transferred.done
  /\ EdgesOfMode(transferred.G, "transfer") # {}
  /\ In("bike", modes) /\ In("bixi", modes)
  /\ \E i \in DOMAIN merged_graph.nodes, j \in DOMAIN merged_graph.nodes :
       /\ NodeMode(merged_graph.nodes[i].data) = "bike"
       /\ NodeMode(merged_graph.nodes[j].data) = "bixi"
       /\ NodesInRange(merged_graph, merged_graph.nodes[i], merged_graph.nodes[j])

SavedFiles == {saved[i] : i \in DOMAIN saved}

\* a node of the car graph file, of mode car, lies within 0.5 km of a stop of
\* the GTFS file
CarNodeNearStop ==
  \E i \in DOMAIN files["car"].nodes, j \in DOMAIN files["gtfs"].nodes :
    /\ NodeMode(files["car"].nodes[i].data) = "car"
    /\ NodesInRange(files, files["car"].nodes[i], files["gtfs"].nodes[j])

\* C2: for the combination {car, transit} (the car graph file and the GTFS
\* graph file), when a car node lies within 0.5 km of a transit stop the
\* merged graph that main saves has at least one edge of travel_mode transfer
C2_CarTransitTransfer ==
  \A s \in SavedFiles :
    (s.modes = <<"car", "gtfs">> /\ CarNodeNearStop) => s.transfer_edge_count >= 1

\* every selection of labels, of every size
AllSelections ==
  UNION {{combinations(labels, r)[k] : k \in DOMAIN combinations(labels, r)} :
           r \in 0..Len(labels)}

Processed == {Combos[i] : i \in 1..(ci - 1)}

\* C3: main never merges or saves a combination that holds both bike and bixi
\* or that has fewer than 2 modes; is_valid_combo is False for exactly those
\* selections of the modes and True for every other one
C3_InvalidCombosNeverMerged ==
  /\ \A s \in SavedFiles :
       /\ Len(s.modes) >= 2
       /\ ~(In("bike", s.modes) /\ In("bixi", s.modes))
       /\ s.name \in Processed
  /\ \A combo \in AllSelections :
       is_valid_combo(combo) <=> ~((In("bike", combo) /\ In("bixi", combo)) \/ Len(combo) < 2)

\* C3 witness: main is through the enumeration with every file readable, and
\* has saved graphs, none of them for car + bike + bixi + gtfs
C3_Witness ==
  /\ ci > Len(Combos)
  /\ present = LabelSet
  /\ Len(saved) >= 1
  /\ labels \in Processed

RECURSIVE NodeSum(_, _)
NodeSum(ls, i) ==
  IF i > Len(ls) THEN 0 ELSE Len(files[ls[i]].nodes) + NodeSum(ls, i + 1)

RECURSIVE EdgeSum(_, _)
EdgeSum(ls, i) ==
  IF i > Len(ls) THEN 0 ELSE Cardinality(files[ls[i]].edges) + EdgeSum(ls, i + 1)

\* C10: node identifiers are unique across the mode graphs of every
\* combination main merges, so the merged graph has as many nodes as its
\* constituents together and, transfer edges aside, as many edges
C10_DisjointComposition ==
  \A s \in SavedFiles :
    /\ \A i \in DOMAIN s.modes, j \in DOMAIN s.modes :
         i # j => NodeIds(files[s.modes[i]]) \cap NodeIds(files[s.modes[j]]) = {}
    /\ s.node_count = NodeSum(s.modes, 1)
    /\ s.edge_count - s.transfer_edge_count = EdgeSum(s.modes, 1)

\* C7: every edge has travel_time >= 0, in particular every transit edge that
\* build_gtfs_graph makes from consecutive stop times (24 h added when the
\* difference is negative, unparsable times read as 0, times >= 24:00:00)
C7_TravelTimeNonNegative ==
  gtfs_graph.done =>
    \A e \in gtfs_graph.G.edges : e.data.travel_time >= 0

\* C8: effective_edge_cost returns at least 0.1 for every edge attribute map,
\* whatever its travel_mode and its travel_time (0, absent, below the bonus)
C8_EffectiveCostFloor ==
  cost.done => cost.value >= 100

\* C8 witness: the cost of a bike edge without travel_time, whose bonus alone
\* would give -10
C8_Witness ==
  /\ cost.done
  /\ "travel_time" \notin DOMAIN edge_data
  /\ Get(edge_data, "travel_mode", "") = "bike"

\* C9: multimodal_astar_weight returns a strictly positive weight of at least
\* 0.1 for every edge, also when its travel_time or its length is 0
C9_AstarWeightFloor ==
  weight.done => weight.value >= 100

\* the orders in which n graphs can be given to compose_all
Orders(n) == {p \in [1..n -> 1..n] : \A i \in 1..n, j \in 1..n : p[i] = p[j] => i = j}

NodeMap(G) == {G.nodes[i] : i \in DOMAIN G.nodes}

\* how many edges u -> v of G carry the attributes data
EdgeMultiplicity(G, u, v, data) ==
  Cardinality({e \in G.edges : e.u = u /\ e.v = v /\ e.data = data})

\* the same nodes with the same attributes, the same multiset of edges
SameGraph(G, H) ==
  /\ NodeMap(G) = NodeMap(H)
  /\ \A e \in G.edges \cup H.edges :
       EdgeMultiplicity(G, e.u, e.v, e.data) = EdgeMultiplicity(H, e.u, e.v, e.data)

\* main's merge of the files of a combination, taken in the order p
MergedInOrder(combo, p) ==
  LET ms == [i \in DOMAIN combo |-> combo[p[i]]]
  IN  add_transfer_edges(compose_all([i \in DOMAIN ms |-> files[ms[i]]]), ms)

\* C11: merging is commutative in the order of the input graphs: the mode
\* graphs of a combination main saved, composed in any other order and given
\* to add_transfer_edges, yield the same nodes with the same attributes and
\* the same multiset of edges with the same attributes, transfer edges included
C11_MergeCommutative ==
  \A s \in SavedFiles :
    \A p \in Orders(Len(s.modes)) : SameGraph(MergedInOrder(s.modes, p), s.graph)

\* the samples of the period asked for
ProfileAsked == time_profiles[PeriodOf(reference_time)]

\* every sample lies more than 2.0 km from the place asked about
NoSampleNear ==
  \A i \in DOMAIN ProfileAsked :
    calculate_distance_km(ProfileAsked[i].lat, ProfileAsked[i].lon,
                          position[2], position[1]) > 2000

\* C13: get_traffic_multiplier returns a value in [1.0, 3.0] for every
\* position, every timestamp and every set of processed profiles, and exactly
\* 1.0 whenever the nearest sample is more than 2.0 km from the position
C13_TrafficMultiplierRange ==
  multiplier.done =>
    /\ 1000 <= multiplier.value /\ multiplier.value <= 3000
    /\ (DOMAIN time_profiles # {} /\ NoSampleNear) => multiplier.value = 1000

DowntownDistance(place) ==
  calculate_distance_km(place[2], place[1], downtown_center.lat, downtown_center.lon)

\* C14: _calculate_zoning_penalty returns a value in [1.0, 3.0] for every edge
\* attribute map and position, and with road class, commercial tags and
\* traffic multiplier held fixed the penalty never increases as the distance
\* from the downtown reference point increases
C14_ZoningPenaltyRange ==
  penalty.done =>
    /\ PenaltyOne <= penalty.value /\ penalty.value <= 3 * PenaltyOne
    /\ \A farther \in Places :
         ( /\ DowntownDistance(farther) >= DowntownDistance(position)
           /\ get_traffic_multiplier(time_profiles, farther[2], farther[1], reference_time)
                = get_traffic_multiplier(time_profiles, position[2], position[1],
                                         reference_time) )
         => _calculate_zoning_penalty(time_profiles, reference_time, road,
                                      farther[2], farther[1]) <= penalty.value

\* the road-class factor by the table of the claim, in tenths
ClaimedRoadFactor(data) ==
  LET class == IF "highway" \in DOMAIN data THEN data.highway.items[1] ELSE ""
  IN  CASE class = "motorway"    -> 10
        [] class = "trunk"       -> 11
        [] class = "primary"     -> 12
        [] class = "secondary"   -> 13
        [] class = "tertiary"    -> 14
        [] class = "residential" -> 11
        [] class = "service"     -> 12
        [] OTHER                 -> 13

HasCommercialTag(data) ==
  \E i \in DOMAIN zoning_keys :
    zoning_keys[i] \in DOMAIN data /\ IsCommercial(data[zoning_keys[i]])

TrafficHere ==
  get_traffic_multiplier(time_profiles, position[2], position[1], reference_time)

\* C19: the road-class factor of _calculate_zoning_penalty is motorway 1.0,
\* trunk 1.1, primary 1.2, secondary 1.3, tertiary 1.4, residential 1.1,
\* service 1.2, and 1.3 for unclassified and every other or missing highway
\* value; the commercial bonus x1.3 is applied at most once per edge
C19_RoadClassFactor ==
  (penalty.done /\ TrafficHere # NaN) =>
    penalty.value =
      Min2(ClaimedRoadFactor(road) * DowntownFactor(DowntownDistance(position))
             * (IF HasCommercialTag(road) THEN 13 ELSE 10)
             * (IF DOMAIN time_profiles = {} THEN 2000 ELSE traffic_penalty(TrafficHere)),
           3 * PenaltyOne)

\* the edge of the graph after apply_traffic_to_graph that was e before it
Applied(e) == CHOOSE f \in applied.G.edges : f.u = e.u /\ f.v = e.v /\ f.key = e.key

\* the speed of an edge as the claim has it: the number its maxspeed parses
\* to, 50 km/h without a maxspeed or without a number in it
ClaimedSpeed(data) ==
  IF "maxspeed" \notin DOMAIN data THEN 50
  ELSE IF ~data.maxspeed.is_list /\ \A i \in DOMAIN data.maxspeed.items[1] :
                                      ~data.maxspeed.items[1][i].digits
    THEN 50
  ELSE _parse_speed(data.maxspeed)

EdgesLeaving(G, u, Filter(_)) == {e \in G.edges : e.u = u /\ Filter(e.data)}

\* the target the claim has a source at coord connect to: of the 5
\* nearest targets (all of them when there are fewer), in
\* ascending approximate distance, the first within max_distance; none when
\* none of them is
ClaimedTarget(coord, targets) ==
  LET coords == [i \in DOMAIN targets |-> CoordOf(targets[i].data)]
      k      == Min2(5, Len(targets))
      cand   == KDQuery(coords, coord, k)
      near   == {r \in 1..k : calculate_distance(coord, coords[cand[r]]) <= max_distance_km}
  IN  IF near = {} THEN {} ELSE {targets[cand[Min(near)]].id}

\* the edges of G from node u are one edge to each node of the set to
OneEdgeToEach(G, u, Filter(_), to) ==
  /\ {e.v : e \in EdgesLeaving(G, u, Filter)} = to
  /\ Cardinality(EdgesLeaving(G, u, Filter)) = Cardinality(to)

C16_TransferPart ==
  transferred.done =>
    \A p \in DOMAIN valid_transfers :
      LET mode1 == valid_transfers[p][1]
          mode2 == valid_transfers[p][2]
          from  == nodes_by_mode(merged_graph, mode1)
          to    == nodes_by_mode(merged_graph, mode2)
      IN  PairApplies(merged_graph, modes, mode1, mode2) =>
            \A i \in DOMAIN from :
              OneEdgeToEach(transferred.G, from[i].id,
                            LAMBDA d : /\ d.travel_mode = "transfer"
                                       /\ d.transfer_from = mode1
                                       /\ d.transfer_to = mode2,
                            ClaimedTarget(CoordOf(from[i].data), to))

C16_InjectPart ==
  (injected.done /\ injected.ok) =>
    \A i \in DOMAIN nodes_by_mode(merged_graph, "bixi") :
      LET station == nodes_by_mode(merged_graph, "bixi")[i]
      IN  OneEdgeToEach(injected.G, station.id,
                        LAMBDA d : d.travel_mode = "bixi_transfer",
                        ClaimedTarget(CoordOf(station.data),
                                      nodes_by_mode(merged_graph, "bike")))

\* C16: in add_transfer_edges and in inject_bixi_into_bike_graph each source
\* examines its 5 nearest targets (all of them when fewer) in ascending
\* approximate distance, takes the first whose Haversine distance is within
\* the threshold and stops: at most one edge per source and target mode
C16_FiveNearestFirstInRange == C16_TransferPart /\ C16_InjectPart

\* the station has a bike node among its nearest that is within the distance
StationInRange(station) ==
  ClaimedTarget(CoordOf(station.data), nodes_by_mode(merged_graph, "bike")) # {}

\* C17: a source none of whose candidates is within the distance gets no
\* edge and the synthesis goes on to its end, whatever the number of
\* targets: a bike graph of fewer than five nodes in
\* inject_bixi_into_bike_graph, one or two targets in add_transfer_edges
C17_NoCandidateNoEdge ==
  /\ transferred.done =>
       \A i \in DOMAIN merged_graph.nodes :
         LET node == merged_graph.nodes[i]
         IN  (\A p \in DOMAIN valid_transfers :
                NodeMode(node.data) = valid_transfers[p][1] =>
                  ClaimedTarget(CoordOf(node.data),
                                nodes_by_mode(merged_graph, valid_transfers[p][2])) = {})
               => EdgesLeaving(transferred.G, node.id, LAMBDA d : TRUE) = {}
  /\ (injected.done /\ nodes_by_mode(merged_graph, "bike") # <<>>) =>
       /\ injected.ok
       /\ \A i \in DOMAIN nodes_by_mode(merged_graph, "bixi") :
            LET station == nodes_by_mode(merged_graph, "bixi")[i]
            IN  ~StationInRange(station) =>
                  EdgesLeaving(injected.G, station.id, LAMBDA d : TRUE) = {}

\* the adjustment the claim gives a travel mode, in milliseconds
ClaimedAdjustment(edge) ==
  LET mode == Get(edge, "travel_mode", "")
  IN  CASE mode = "car"        -> 30000
        [] mode = "transit"    -> -15000
        [] mode = "pedestrian" -> -5000
        [] mode = "bike"       -> -10000
        [] OTHER               -> 0

\* the base the claim starts from: the travel time of the edge, without one
\* the time its length takes at the assumed speed
ClaimedBase(edge) ==
  IF "travel_time" \in DOMAIN edge THEN edge.travel_time
  ELSE LengthBasedCost(edge.length)

\* C18: effective_edge_cost(edge) is max(base + adjustment, 0.1), base the
\* travel_time of the edge or, without one, the time of its length at the
\* assumed speed, adjustment +30 s for car, -15 s for transit, -5 s for
\* pedestrian, -10 s for bike and 0 for every other mode; the edge is not
\* changed by the call
C18_EffectiveCostFormula ==
  (cost.done /\ ("travel_time" \in DOMAIN edge_data \/ "length" \in DOMAIN edge_data)) =>
    cost.value = Max2(ClaimedBase(edge_data) + ClaimedAdjustment(edge_data), 100)

\* the zone label of an hourly rate, by the thresholds of the density path
\* (traffic_data.py:416-423): 6.0, 4.0 and 2.5 dollars
ZoneOfRate(final_rate) ==
  IF final_rate >= 600 THEN "downtown_core"
  ELSE IF final_rate >= 400 THEN "downtown_extended"
  ELSE IF final_rate >= 250 THEN "urban_dense"
  ELSE "suburban"

\* the schedule of the claim: hourly rate in cents and search time in tenths
\* of a minute by the distance to downtown in metres
ClaimedSchedule(distance) ==
  IF distance <= 2000 THEN <<800, 150>>
  ELSE IF distance <= 4000 THEN <<500, 100>>
  ELSE IF distance <= 8000 THEN <<300, 80>>
  ELSE <<100, 30>>

\* the time factor of the claim, in tenths
ClaimedTimeFactor(time) ==
  CASE time = "business" -> 10
    [] time = "evening"  -> 7
    [] time = "weekend"  -> 8
    [] OTHER             -> 10

\* C20: without a density map get_parking_cost_info takes rate and search
\* time from the distance schedule (<= 2 km: 8/hr, 15 min; <= 4 km: 5/hr,
\* 10 min; <= 8 km: 3/hr, 8 min; else 1/hr, 3 min), scales both by the time
\* factor (business 1.0, evening 0.7, weekend 0.8) and labels the zone by the
\* thresholds of the density path on the resulting hourly rate (>= 6
\* downtown_core, >= 4 downtown_extended, >= 2.5 urban_dense, else suburban)
C20_FallbackParkingCost ==
  parking.done =>
    LET schedule == ClaimedSchedule(DowntownDistance(position))
        factor   == ClaimedTimeFactor(time_of_day)
    IN  /\ parking.info.hourly_rate = (schedule[1] * factor) \div 10
        /\ parking.info.search_time_minutes = (schedule[2] * factor) \div 10
        /\ parking.info.zone = ZoneOfRate(parking.info.hourly_rate)

\* the same without the zone label: schedule and time factor alone
C20_ScheduleAndFactor ==
  parking.done =>
    LET schedule == ClaimedSchedule(DowntownDistance(position))
        factor   == ClaimedTimeFactor(time_of_day)
    IN  /\ parking.info.hourly_rate = (schedule[1] * factor) \div 10
        /\ parking.info.search_time_minutes = (schedule[2] * factor) \div 10

\* the weight the claim gives an edge: its travel time, with the penalty of
\* 300 s when the edge is a transfer edge of one of the two synthesizers
ClaimedAstarWeight(data) ==
  IF data.travel_mode \in {"transfer", "bixi_transfer"}
    THEN data.travel_time + 300000
    ELSE data.travel_time

\* C29: multimodal_astar_weight of a transfer edge synthesized by
\* add_transfer_edges or inject_bixi_into_bike_graph is its travel_time plus
\* the transfer penalty of 300 s, of every other edge its travel_time alone
C29_TransferPenaltyOnTransferEdges ==
  /\ transferred.done =>
       \A e \in transferred.G.edges :
         multimodal_astar_weight(e.data) = ClaimedAstarWeight(e.data)
  /\ injected.done =>
       \A e \in injected.G.edges :
         multimodal_astar_weight(e.data) = ClaimedAstarWeight(e.data)

\* the nodes of graph G that lack a coordinate
Coordless(G) == {G.nodes[i].id : i \in {j \in DOMAIN G.nodes : ~HasCoord(G.nodes[j].data)}}

\* graph G without the nodes that lack a coordinate
Located(G) == [G EXCEPT !.nodes = SelectSeq(G.nodes, LAMBDA nd : HasCoord(nd.data))]

\* no edge of graph G ends in a node of the set
NoEndpointIn(G, nodes) == \A e \in G.edges : e.u \notin nodes /\ e.v \notin nodes

C22_TransferPart ==
  transferred.done =>
    /\ NoEndpointIn(transferred.G, Coordless(merged_graph))
    /\ transferred.G.edges = add_transfer_edges(Located(merged_graph), modes).edges

\* the injection on the bike nodes that have their coordinates
LocatedInjection ==
  inject_bixi_into_bike_graph(Located(BikeGraphOf(merged_graph)),
                              StationsOf(merged_graph), max_distance_km)

C22_InjectPart ==
  (injected.done /\ LocatedInjection.ok) =>
    /\ injected.ok
    /\ NoEndpointIn(injected.G, Coordless(merged_graph))
    /\ injected.G.edges = LocatedInjection.G.edges

\* C22: a node without a longitude or latitude is never an endpoint of a
\* synthesized transfer edge and never makes the synthesis fail:
\* add_transfer_edges and inject_bixi_into_bike_graph leave it out of the
\* spatial index and skip it as a source, and add the transfers of all other
\* nodes as they would without it
C22_CoordlessNodesSkipped == C22_TransferPart /\ C22_InjectPart

\* the stations handed to the injection
StationIds == {StationsOf(merged_graph)[i].id : i \in DOMAIN StationsOf(merged_graph)}

\* the edges the injection added that touch station s
NewEdgesOf(s) ==
  {e \in injected.G.edges \ BikeGraphOf(merged_graph).edges : e.u = s \/ e.v = s}

\* the edges are one edge from s to b and one from b to s
EdgePair(edges, s, b) ==
  /\ Cardinality(edges) = 2
  /\ \E e \in edges : e.u = s /\ e.v = b
  /\ \E e \in edges : e.u = b /\ e.v = s

\* C26: inject_bixi_into_bike_graph leaves the bike graph it is given as it
\* was; the graph it returns has every node and edge of the input, one more
\* node per station id and per station no new edge or exactly two, from the
\* station to a node of the input bike graph and back, never to a station
C26_InjectionFrame ==
  injected.done =>
    LET input == BikeGraphOf(merged_graph)
        out   == injected.G
    IN  /\ injected.G_bike = input
        /\ injected.ok =>
              /\ \A i \in DOMAIN input.nodes :
                   \E k \in DOMAIN out.nodes : out.nodes[k] = input.nodes[i]
              /\ input.edges \subseteq out.edges
              /\ NodeIds(out) = NodeIds(input) \cup StationIds
              /\ Len(out.nodes) = Len(input.nodes) + Cardinality(StationIds)
              /\ \A e \in out.edges \ input.edges : e.u \in StationIds \/ e.v \in StationIds
              /\ \A s \in StationIds :
                   \/ NewEdgesOf(s) = {}
                   \/ \E b \in NodeIds(input) : EdgePair(NewEdgesOf(s), s, b)

\* C26 witness: the injection returned a graph in which one station has its
\* two edges and another has none, on a bike graph that has streets
C26_Witness ==
  /\ injected.done /\ injected.ok
  /\ BikeGraphOf(merged_graph).edges # {}
  /\ injected.G_bike = BikeGraphOf(merged_graph)
  /\ \E s \in StationIds : NewEdgesOf(s) = {}
  /\ \E s \in StationIds : Cardinality(NewEdgesOf(s)) = 2

\* every file of the combination loads
AllLoad(combo) == \A i \in DOMAIN combo : combo[i] \in present

\* the number of save_merged_graph calls for the combination
TimesSaved(combo) == Cardinality({i \in DOMAIN saved : saved[i].name = combo})

\* what holds of the combinations main is through
SavedOnceSoFar ==
  /\ \A combo \in Processed :
       TimesSaved(combo) =
         (IF Len(combo) >= 2 /\ ~(In("bike", combo) /\ In("bixi", combo)) /\ AllLoad(combo)
            THEN 1 ELSE 0)
  /\ \A s \in SavedFiles : s.name \in Processed
  /\ combinations_generated = Len(saved)

\* a step of main at a combination that is invalid or has a file that does
\* not load goes on to the next combination and saves nothing
GoesOnPastFailure ==
  (ci <= Len(Combos) /\ (~is_valid_combo(Combo) \/ ~AllLoad(Combo))) =>
    (ci' = ci + 1 /\ saved' = saved /\ combinations_generated' = combinations_generated)

\* C24: main saves each valid combination (two modes or more, not bike and
\* bixi together) exactly once when all its files load and does not merge or
\* save it when one of them fails to load; neither a load failure nor an
\* invalid combination stops main, which goes on to the next combination;
\* and combinations_generated is the number of graphs saved
C24_EachValidComboSavedOnce == [](SavedOnceSoFar) /\ [][GoesOnPastFailure]_vars

\* C24 witness: main is through all combinations, it saved some, left out
\* one for a file that did not load and skipped an invalid one
C24_Witness ==
  /\ ci = Len(Combos) + 1
  /\ combinations_generated >= 1
  /\ \E combo \in Processed : is_valid_combo(combo) /\ ~AllLoad(combo)
  /\ \E combo \in Processed : ~is_valid_combo(combo)
  /\ \E combo \in Processed : Combos[Len(Combos)] = combo /\ TimesSaved(combo) = 0

\* C27: apply_traffic_to_graph returns the graph it enriched, so that what
\* osrm_graph.main stores in graphs['car'] and hands to save_graph_json is the
\* car graph with its traffic attributes, never an absent value
C27_ApplyTrafficReturnsGraph ==
  applied.done => (applied.returned # None /\ applied.returned = applied.G)

\* the call has made the map from a population of samples
DensityMapMade == calls # <<>> /\ traffic_data # None

\* C21: for every population of samples that is not empty
\* create_density_based_parking_costs gives each sample a parking_rate in
\* [1, 8] and a search_time in [2, 15], the sample of the least density at
\* (1, 2) and the sample of the greatest at (8, 15), populations of one sample
\* or of samples of one density included
C21_DensityRescaled ==
  DensityMapMade =>
    LET rows   == parking_density_map.rows
        scores == {rows[i].density_score : i \in DOMAIN rows}
    IN  /\ \A i \in DOMAIN rows :
             /\ 100 <= rows[i].parking_rate /\ rows[i].parking_rate <= 800
             /\ 20 <= rows[i].search_time /\ rows[i].search_time <= 150
        /\ Cardinality(scores) > 1 =>
             \A i \in DOMAIN rows :
               /\ rows[i].density_score = Min(scores) =>
                    (rows[i].parking_rate = 100 /\ rows[i].search_time = 20)
               /\ rows[i].density_score = MaxOf(scores) =>
                    (rows[i].parking_rate = 800 /\ rows[i].search_time = 150)

\* the same for the populations that have two densities or more
C21_TwoDensities ==
  LET scores == {parking_density_map.rows[i].density_score :
                   i \in DOMAIN parking_density_map.rows}
  IN  (DensityMapMade /\ Cardinality(scores) > 1) => C21_DensityRescaled

\* the call this step makes
ThisCall == calls'[Len(calls')]

\* a call of the operation has returned True before this step
Succeeded(op) == \E j \in DOMAIN calls : calls[j].op = op /\ calls[j].returned

\* a step of the processor keeps to the order of download, process and query
KeepsLifecycle ==
  /\ (ThisCall.op = "process_traffic_data" /\ ~Succeeded("download_traffic_data")) =>
       (~ThisCall.returned /\ time_profiles' = time_profiles)
  /\ (ThisCall.op = "download_traffic_data" /\ ~ThisCall.returned) =>
       traffic_data' = traffic_data
  /\ (ThisCall.op = "get_traffic_multiplier" /\ ThisCall.returned # 1000) =>
       Succeeded("process_traffic_data")

\* C23: over any sequence of calls process_traffic_data returns False and
\* leaves time_profiles as they were unless a download_traffic_data has
\* succeeded before it, a failed download_traffic_data returns False and
\* leaves traffic_data as it was, and get_traffic_multiplier returns a value
\* other than the neutral 1.0 only after a process_traffic_data has succeeded
C23_TrafficLifecycle == [][KeepsLifecycle]_vars

\* C23 witness: a download succeeded, a later one failed and left the data,
\* process_traffic_data then succeeded and the multiplier asked after it is
\* not the neutral one
C23_Witness ==
  /\ Len(calls) = 4
  /\ calls[1].op = "download_traffic_data" /\ calls[1].returned
  /\ calls[2].op = "download_traffic_data" /\ ~calls[2].returned
  /\ traffic_data # None
  /\ calls[3].op = "process_traffic_data" /\ calls[3].returned
  /\ calls[4].op = "get_traffic_multiplier" /\ calls[4].returned > 1000

\* the edge of a returned graph that was edge e of the graph given
EdgeAfter(G, e) == CHOOSE f \in G.edges : f.u = e.u /\ f.v = e.v /\ f.key = e.key

\* each edge with a travel_time has it multiplied by its penalty once, the
\* edges without one are as they were
PenaltyAppliedOnce(G) ==
  \A e \in car_graph.edges :
    IF "travel_time" \in DOMAIN e.data
      THEN /\ "zoning_penalty" \in DOMAIN EdgeAfter(G, e).data
           /\ EdgeAfter(G, e).data.travel_time =
                TimesPenalty(e.data.travel_time, EdgeAfter(G, e).data.zoning_penalty)
      ELSE EdgeAfter(G, e) = e

\* C28 (second half): in the graph of each call each edge with a travel_time
\* has it multiplied by its zoning_penalty exactly once and each edge without
\* a travel_time is as it was
C28_PenaltyAppliedOnce ==
  zoning_calls # Idle => \A i \in DOMAIN zoning_calls : PenaltyAppliedOnce(zoning_calls[i].G)

\* C28: two calls of apply_zoning_travel_time_penalty on equal graphs with
\* the same reference_time and the same processed profiles give every edge
\* the same zoning_penalty and the same travel_time, whatever the hour of the
\* wall clock at which each call runs, each edge with a travel_time having it
\* multiplied by its penalty once and the others being left as they were
C28_ZoningDeterministic ==
  zoning_calls # Idle =>
    /\ \A i \in DOMAIN zoning_calls : PenaltyAppliedOnce(zoning_calls[i].G)
    /\ \A i, j \in DOMAIN zoning_calls : zoning_calls[i].G = zoning_calls[j].G

\* the routing of the report found no path between the pair
NoRoute(r) == r.raised = "NetworkXNoPath"

\* the report of a query without a path differs from the report of every
\* query that ended otherwise, and the query has no routing time
NoRouteReported ==
  \A i \in DOMAIN reports :
    NoRoute(reports[i]) =>
      /\ \A j \in DOMAIN reports :
           ~NoRoute(reports[j]) => reports[j].message # reports[i].message
      /\ reports[i].query \notin times

\* the driver goes on to its next query after a query without a path
GoesOnAfterNoRoute ==
  (reports' # reports /\ NoRoute(reports'[Len(reports')])) =>
    (qi' = qi + 1 /\ driver' = driver)

\* C25: when no path exists between the queried pair the driver reports a
\* "no route" outcome that no other failure is reported as, records no
\* routing time for the query and goes on with the remaining queries, in
\* test_single_routing and in the routing loop of quick_test.main
C25_NoRouteDistinct == []NoRouteReported /\ [][GoesOnAfterNoRoute]_vars

\* C25 (test_single_routing): the claim for this driver alone
C25_SingleRoutingDistinct ==
  [](driver = "test_single_routing" => NoRouteReported) /\ [][GoesOnAfterNoRoute]_vars

====
